---------------------------- MODULE Spec2Model ----------------------------
(***************************************************************************)
(* A model of the GRACE-HPC backend (src/gracehpc/core): the batch         *)
(* pipeline core_engine = get_job_logs -> add_emissions_data ->            *)
(* aggregate_df -> save_output_dfs.                                        *)
(*                                                                         *)
(* Conventions.                                                            *)
(*  - A DataFrame is a sequence of records (rows, in row order).           *)
(*  - A text field whose characters the code inspects (JobID, ReqMem,      *)
(*    MaxRSS) is a sequence of one-character strings; the empty field,     *)
(*    which pandas.read_csv reads as NaN, is the empty sequence (and ""    *)
(*    for an atomic string such as User).                                  *)
(*  - A float is an exact rational [n, d] in lowest terms with d > 0;      *)
(*    d = 0 encodes the non-finite results of a float division by zero     *)
(*    (NaN: n = 0, inf: n = 1).  Rounding error is not modelled.           *)
(*  - A duration (timedelta) is a whole number of seconds.                 *)
(***************************************************************************)
EXTENDS Integers, Sequences, FiniteSets, TLC

(***************************************************************************)
(* Bounds of the model.                                                    *)
(***************************************************************************)
\* the largest number of sacct rows of a run
MaxRows == 3

(***************************************************************************)
(* Exact arithmetic for the float columns.                                 *)
(***************************************************************************)
Abs(x) == IF x < 0 THEN -x ELSE x

RECURSIVE GCD(_, _)
GCD(a, b) == IF b = 0 THEN a ELSE GCD(b, a % b)

Norm(n, d) ==
    LET g == GCD(Abs(n), d)
    IN  [n |-> n \div g, d |-> d \div g]

R(k) == [n |-> k, d |-> 1]

NaN == [n |-> 0, d |-> 0]

Inf == [n |-> 1, d |-> 0]

IsFinite(x) == x.d # 0

RAdd(a, b) ==
    IF ~IsFinite(a) \/ ~IsFinite(b) THEN NaN
    ELSE LET g == GCD(a.d, b.d)
             l == (a.d \div g) * b.d
         IN  Norm(a.n * (l \div a.d) + b.n * (l \div b.d), l)

RNeg(a) == [n |-> -a.n, d |-> a.d]

RSub(a, b) == RAdd(a, RNeg(b))

RMul(a, b) ==
    IF ~IsFinite(a) \/ ~IsFinite(b) THEN NaN
    ELSE LET g1 == GCD(Abs(a.n), b.d)
             g2 == GCD(Abs(b.n), a.d)
         IN  Norm((a.n \div g1) * (b.n \div g2), (a.d \div g2) * (b.d \div g1))

\* float division as numpy computes it: x/0 is inf (nan for 0/0), no exception
RDiv(a, b) ==
    IF ~IsFinite(a) \/ ~IsFinite(b) THEN NaN
    ELSE IF b.n = 0 THEN (IF a.n = 0 THEN NaN ELSE Inf)
    ELSE IF b.n > 0 THEN RMul(a, [n |-> b.d, d |-> b.n])
    ELSE RMul(a, [n |-> -b.d, d |-> -b.n])

\* comparisons with NaN are False, as in IEEE arithmetic
RLt(a, b) == IsFinite(a) /\ IsFinite(b) /\ a.n * b.d < b.n * a.d

RLe(a, b) == IsFinite(a) /\ IsFinite(b) /\ a.n * b.d <= b.n * a.d

RMax2(a, b) == IF RLt(a, b) THEN b ELSE a

RMin2(a, b) == IF RLt(b, a) THEN b ELSE a

\* int(x) of a non-negative float
Trunc(a) == a.n \div a.d

Max2(a, b) == IF a < b THEN b ELSE a

Min2(a, b) == IF b < a THEN b ELSE a

RECURSIVE FoldSeq(_, _, _)
FoldSeq(Op(_, _), base, s) ==
    IF s = <<>> THEN base ELSE FoldSeq(Op, Op(base, Head(s)), Tail(s))

\* the column f of a DataFrame
Col(df, f) == [i \in 1..Len(df) |-> df[i][f]]

RSum(s) == FoldSeq(RAdd, R(0), s)

ISum(s) == FoldSeq(+, 0, s)

RMaxSeq(s) == FoldSeq(RMax2, Head(s), Tail(s))

IMaxSeq(s) == FoldSeq(Max2, Head(s), Tail(s))

IMinSeq(s) == FoldSeq(Min2, Head(s), Tail(s))

Range(s) == {s[i] : i \in 1..Len(s)}

(***************************************************************************)
(* Text helpers.                                                           *)
(***************************************************************************)
\* the characters of the model's text fields, in code-point order
Alphabet == <<"-", ".", "0", "1", "2", "3", "4", "5", "6", "7", "8", "9", ":",
              "G", "K", "M", "T", "_", "b", "c", "n", "x">>

Ord(ch) == CHOOSE i \in 1..Len(Alphabet) : Alphabet[i] = ch

Digits == {"0", "1", "2", "3", "4", "5", "6", "7", "8", "9"}

DigitVal(ch) == Ord(ch) - 3

\* str < str, lexicographic
RECURSIVE StrLess(_, _)
StrLess(s, t) ==
    IF t = <<>> THEN FALSE
    ELSE IF s = <<>> THEN TRUE
    ELSE IF Head(s) = Head(t) THEN StrLess(Tail(s), Tail(t))
    ELSE Ord(Head(s)) < Ord(Head(t))

\* s.split(sep)[0]
RECURSIVE SplitHead(_, _)
SplitHead(s, sep) ==
    IF s = <<>> \/ Head(s) = sep THEN <<>>
    ELSE <<Head(s)>> \o SplitHead(Tail(s), sep)

\* s.split(sep)
RECURSIVE Split(_, _)
Split(s, sep) ==
    IF \A i \in 1..Len(s) : s[i] # sep THEN <<s>>
    ELSE LET first == SplitHead(s, sep)
         IN  <<first>> \o Split(SubSeq(s, Len(first) + 2, Len(s)), sep)

\* len(s.split(sep))
SplitLen(s, sep) == Cardinality({i \in 1..Len(s) : s[i] = sep}) + 1

\* s * k, the repetition of a str
RECURSIVE StrRepeat(_, _)
StrRepeat(s, k) == IF k <= 0 THEN <<>> ELSE s \o StrRepeat(s, k - 1)

RECURSIVE DigitsValue(_, _)
DigitsValue(s, acc) ==
    IF s = <<>> THEN acc ELSE DigitsValue(Tail(s), 10 * acc + DigitVal(Head(s)))

ParseInt_unchecked(s) == [ok |-> TRUE, v |-> DigitsValue(s, 0)]

\* int(s) for a str of decimal digits; any other str of the modelled
\* characters raises ValueError
ParseInt(s) ==
    IF s # <<>> /\ \A i \in 1..Len(s) : s[i] \in Digits
    THEN [ok |-> TRUE, v |-> DigitsValue(s, 0)]
    ELSE [ok |-> FALSE, v |-> 0]

\* float(s) for a str of decimal digits; any other str raises ValueError
ParseFloat(s) ==
    IF s # <<>> /\ \A i \in 1..Len(s) : s[i] \in Digits
    THEN [ok |-> TRUE, v |-> R(DigitsValue(s, 0))]
    ELSE [ok |-> FALSE, v |-> NaN]


(***************************************************************************)
(* The cluster configuration (hpc_config.yaml) of the modelled runs.       *)
(***************************************************************************)
hpc_config ==
    [partitions |-> [cpu |-> [processor |-> "CPU", TDP |-> 100],
                     gpu |-> [processor |-> "GPU", TDP |-> 200, CPU_TDP |-> 100]],
     PUE |-> 2]

PartitionNames == DOMAIN hpc_config.partitions

(***************************************************************************)
(* JobLogUtils: the field normalisers.                                     *)
(***************************************************************************)
\* a value, or the exception raised instead of it
Ok(v) == [err |-> "", v |-> v]

Raise(e) == [err |-> e, v |-> NaN]

\* str_to_timedelta: the timedelta is a number of milliseconds
str_to_timedelta(time_string) ==
    LET day_parts == Split(time_string, "-")
        has_days == Len(day_parts) = 2
        days == IF has_days THEN ParseInt(day_parts[1]) ELSE [ok |-> TRUE, v |-> 0]
        time_part == IF has_days THEN day_parts[2] ELSE time_string
        ms_parts == Split(time_part, ".")
        has_ms == Len(ms_parts) = 2
        milliseconds == IF has_ms THEN ParseInt(ms_parts[2]) ELSE [ok |-> TRUE, v |-> 0]
        hms_part == IF has_ms THEN ms_parts[1] ELSE time_part
        time_components == Split(hms_part, ":")
        padding == IF Len(time_components) = 3 THEN <<>>
                   ELSE IF Len(time_components) = 2 THEN <<<<"0", "0">>>>
                   ELSE <<<<"0", "0">>, <<"0", "0">>>>
        hms == [i \in 1..3 |-> ParseInt((padding \o time_components)[i])]
    IN  IF ~days.ok THEN [err |-> "ValueError", v |-> 0]
        ELSE IF ~milliseconds.ok THEN [err |-> "ValueError", v |-> 0]
        ELSE IF Len(time_components) > 3 THEN [err |-> "ValueError", v |-> 0]
        ELSE IF \E i \in 1..3 : ~hms[i].ok THEN [err |-> "ValueError", v |-> 0]
        ELSE [err |-> "",
              v |-> (((days.v * 24 + hms[1].v) * 60 + hms[2].v) * 60 + hms[3].v) * 1000
                    + milliseconds.v]

process_partition_field(job_record) ==
    IF job_record.Partition = <<>> THEN "" ELSE Head(job_record.Partition)

categorise_partition_defaulting(partition_name) ==
    IF partition_name \notin PartitionNames
    THEN [err |-> "", v |-> "CPU"]
    ELSE [err |-> "", v |-> hpc_config.partitions[partition_name].processor]

categorise_partition(partition_name) ==
    IF partition_name \notin PartitionNames
    THEN [err |-> "ValueError", v |-> ""]
    ELSE [err |-> "", v |-> hpc_config.partitions[partition_name].processor]

memory_conversion_K_as_M(value, unit_label) ==
    IF unit_label \notin {"M", "G", "K"} THEN Raise("AssertionError")
    ELSE IF unit_label \in {"M", "K"} THEN Ok(RDiv(value, R(1000)))
    ELSE Ok(value)

memory_conversion(value, unit_label) ==
    IF unit_label \notin {"M", "G", "K"} THEN Raise("AssertionError")
    ELSE IF unit_label = "M" THEN Ok(RDiv(value, R(1000)))
    ELSE IF unit_label = "K" THEN Ok(RDiv(value, R(1000000)))
    ELSE Ok(value)

\* s[:-k]
DropLast(s, k) == SubSeq(s, 1, Len(s) - k)

requested_memory(job_record) ==
    LET raw == job_record.ReqMem
        last == raw[Len(raw)]
    IN  IF raw = <<>> THEN memory_conversion(R(0), "G")
        ELSE IF last \in {"n", "c"}
        THEN IF Len(raw) < 2 THEN Raise("IndexError")
             ELSE LET unit == raw[Len(raw) - 1]
                      base == IF last = "n"
                              THEN ParseFloat(StrRepeat(DropLast(raw, 2), job_record.NNodes))
                              ELSE ParseFloat(DropLast(raw, 2))
                      total == IF last = "n" THEN base.v
                               ELSE RMul(base.v, R(job_record.NCPUS))
                  IN  IF ~base.ok THEN Raise("ValueError")
                      ELSE memory_conversion(total, unit)
        ELSE IF last \in {"M", "G", "K"}
        THEN LET base == ParseFloat(DropLast(raw, 1))
             IN  IF ~base.ok THEN Raise("ValueError")
                 ELSE memory_conversion(base.v, last)
        ELSE Raise("ValueError")

IsAlpha(ch) == ch \notin Digits \cup {".", "_"}

process_max_rss(job_record) ==
    LET raw == job_record.MaxRSS
        last == raw[Len(raw)]
    IN  IF raw = <<>> THEN Ok(R(-1))
        ELSE IF raw = <<"0">> THEN Ok(R(0))
        ELSE IF IsAlpha(last)
        THEN LET numeric_part == ParseFloat(DropLast(raw, 1))
             IN  IF ~numeric_part.ok THEN Raise("ValueError")
                 ELSE memory_conversion(numeric_part.v, last)
        ELSE LET numeric_part == ParseFloat(raw)
             IN  IF ~numeric_part.ok THEN Raise("ValueError")
                 ELSE memory_conversion(numeric_part.v, "K")

used_memory(job_record) ==
    IF job_record.UsedMemoryGB = R(-1)
    THEN job_record.RequestedMemoryGB
    ELSE job_record.UsedMemoryGB

\* a timedelta in hours: td / np.timedelta64(1, 'h')
Hours(seconds) == Norm(seconds, 3600)

cpu_gpu_core_hours_used(job_record) ==
    IF job_record.PartitionCategory = "CPU"
    THEN [CPUhours |-> Hours(IF job_record.ActualCPUtime = 0
                             THEN job_record.CPUwalltime
                             ELSE job_record.ActualCPUtime),
          GPUhours |-> R(0)]
    ELSE [CPUhours |-> R(0),
          GPUhours |-> Hours(job_record.ElapsedRuntime * job_record.GPUsAllocated)]

cpu_gpu_core_hours(job_record) ==
    IF job_record.PartitionCategory = "CPU"
    THEN [CPUhours |-> Hours(job_record.CPUwalltime), GPUhours |-> R(0)]
    ELSE [CPUhours |-> R(0),
          GPUhours |-> Hours(job_record.ElapsedRuntime * job_record.GPUsAllocated)]

node_hours(job_record) ==
    Hours(job_record.ElapsedRuntime * job_record.TotalNodes)

extract_jobID(jobID) ==
    IF SplitLen(jobID, "_") > 2 THEN [err |-> "AssertionError", v |-> <<>>]
    ELSE [err |-> "", v |-> SplitHead(jobID, "_")]

standardise_states_without_active(job_state) ==
    IF job_state \in {"CD", "COMPLETED"} THEN 1 ELSE 0

standardise_states_unknown_apart(job_state) ==
    IF job_state \in {"PD", "PENDING", "R", "RUNNING", "RQ", "REQUEUED"} THEN -2
    ELSE IF job_state \in {"CD", "COMPLETED"} THEN 1
    ELSE IF job_state \in {"F", "FAILED", "CANCELLED", "TIMEOUT"} THEN 0
    ELSE -1

standardise_states(job_state) ==
    LET successful_states == {"CD", "COMPLETED"}
        acitve_states == {"PD", "PENDING", "R", "RUNNING", "RQ", "REQUEUED"}
        status_code == IF job_state \in successful_states THEN 1 ELSE 0
    IN  IF job_state \in acitve_states THEN -2 ELSE status_code

CPU_usage_time_measured(job_record) == job_record.ActualCPUtime

CPU_usage_time(job_record) ==
    IF job_record.ActualCPUtime = 0
    THEN job_record.CPUwalltime
    ELSE job_record.ActualCPUtime

GPU_usage_time(job_record) ==
    IF job_record.PartitionCategory # "GPU" THEN 0
    ELSE job_record.ElapsedRuntime * job_record.GPUsAllocated

min_memory_required_smaller(job_record) ==
    RMin2(job_record.RequestedMemoryGB, R(Trunc(job_record.UsedMemoryGB1) + 1))

min_memory_required(job_record) ==
    LET rounded_memory == R(Trunc(job_record.UsedMemoryGB1) + 1)
    IN  IF RLt(job_record.RequestedMemoryGB, job_record.UsedMemoryGB1)
        THEN rounded_memory
        ELSE RMin2(job_record.RequestedMemoryGB, rounded_memory)

\* py_division: the row's values are Python floats, whose division by zero
\* raises ZeroDivisionError; otherwise they are numpy floats (nan, inf)
wasted_memory(job_record, py_division) ==
    IF RLt(job_record.RequestedMemoryGB, job_record.RequiredMemoryGB)
    THEN Ok(R(1))
    ELSE IF job_record.RequiredMemoryGB.n = 0 /\ py_division
    THEN Raise("ZeroDivisionError")
    ELSE Ok(RDiv(job_record.RequestedMemoryGB, job_record.RequiredMemoryGB))

(***************************************************************************)
(* JobLogProcessor.df_processor.                                           *)
(***************************************************************************)
\* the first exception of a column computed row by row ("" when none)
RECURSIVE FirstErr(_)
FirstErr(results) ==
    IF results = <<>> THEN ""
    ELSE IF Head(results).err # "" THEN Head(results).err
    ELSE FirstErr(Tail(results))

MapSeq(Op(_), s) == [i \in 1..Len(s) |-> Op(s[i])]

\* the Job_ID column: id_string.split('.')[0]
Job_ID_of(id_string) == SplitHead(id_string, ".")

\* 'c' in self.sacct_df.columns, for a column sacct may not print (the
\* AllocTRES column is the field GPUs, the number after gres/gpu= or 0)
HasColumn(df, c) == \A i \in 1..Len(df) : c \in DOMAIN df[i]

\* the columns added to sacct_df, one sacct row at a time
AddColumns(row) ==
    [Job_ID            |-> Job_ID_of(row.JobID),
     UserID            |-> row.UID,
     UserName          |-> row.User,
     NameofJob         |-> row.JobName,
     CPUsAllocated     |-> row.NCPUS,
     TotalNodes        |-> row.NNodes,
     WorkingDirectory  |-> row.WorkDir,
     ElapsedRuntime    |-> row.Elapsed,
     PartitionName     |-> process_partition_field(row),
     SubmissionTime    |-> row.Submit,
     StateCode         |-> standardise_states(row.State),
     GPUsAllocated     |-> IF "GPUs" \in DOMAIN row THEN row.GPUs ELSE 0,
     ActualCPUtime     |-> row.TotalCPU,
     CPUwalltime       |-> IF "CPUTime" \in DOMAIN row THEN row.CPUTime
                           ELSE row.Elapsed * row.NCPUS,
     RequestedMemoryGB |-> requested_memory(row).v,
     UsedMemoryGB      |-> process_max_rss(row).v,
     EnergyIPMI_kwh    |-> Norm(row.ConsumedEnergyRaw, 3600000)]

\* groupby(...).agg('first'): the first value that is not NaN
RECURSIVE AggFirst(_)
AggFirst(values) ==
    IF values = <<>> THEN ""
    ELSE IF Head(values) # "" THEN Head(values)
    ELSE AggFirst(Tail(values))

\* the keys of a groupby, sorted
RECURSIVE SortStrs(_)
SortStrs(keys) ==
    IF keys = {} THEN <<>>
    ELSE LET least == CHOOSE k \in keys : \A o \in keys \ {k} : StrLess(k, o)
         IN  <<least>> \o SortStrs(keys \ {least})

MergeSteps_last(job_id, steps) ==
    LET last == steps[Len(steps)]
    IN  [Job_ID |-> job_id, PartitionName |-> steps[1].PartitionName] @@ last

\* one row of cleaned_df: the rows of one Job_ID merged
MergeSteps(job_id, steps) ==
    [Job_ID            |-> job_id,
     UserID            |-> AggFirst(Col(steps, "UserID")),
     UserName          |-> AggFirst(Col(steps, "UserName")),
     NameofJob         |-> AggFirst(Col(steps, "NameofJob")),
     CPUsAllocated     |-> IMaxSeq(Col(steps, "CPUsAllocated")),
     TotalNodes        |-> IMaxSeq(Col(steps, "TotalNodes")),
     WorkingDirectory  |-> AggFirst(Col(steps, "WorkingDirectory")),
     PartitionName     |-> steps[1].PartitionName,
     SubmissionTime    |-> IMinSeq(Col(steps, "SubmissionTime")),
     StateCode         |-> IMinSeq(Col(steps, "StateCode")),
     ElapsedRuntime    |-> IMaxSeq(Col(steps, "ElapsedRuntime")),
     GPUsAllocated     |-> IMaxSeq(Col(steps, "GPUsAllocated")),
     ActualCPUtime     |-> IMaxSeq(Col(steps, "ActualCPUtime")),
     CPUwalltime       |-> IMaxSeq(Col(steps, "CPUwalltime")),
     RequestedMemoryGB |-> RMaxSeq(Col(steps, "RequestedMemoryGB")),
     UsedMemoryGB      |-> RMaxSeq(Col(steps, "UsedMemoryGB")),
     EnergyIPMI_kwh    |-> RMaxSeq(Col(steps, "EnergyIPMI_kwh"))]

GroupByJobID_transform(df) ==
    [k \in 1..Len(df) |->
        MergeSteps(df[k].Job_ID, SelectSeq(df, LAMBDA r : r.Job_ID = df[k].Job_ID))]

\* groupby('Job_ID').agg(...): one row per key, the keys sorted
GroupByJobID(df) ==
    LET keys == SortStrs({df[i].Job_ID : i \in 1..Len(df)})
    IN  [k \in 1..Len(keys) |->
            MergeSteps(keys[k], SelectSeq(df, LAMBDA r : r.Job_ID = keys[k]))]

\* the columns derived for one row of filtered_df
DeriveColumns(row, py_division, has_AllocTRES) ==
    LET r0 == [UsedMemoryGB1 |-> used_memory(row),
               PartitionCategory |-> categorise_partition(row.PartitionName).v] @@ row
        r1 == IF ~has_AllocTRES /\ r0.PartitionCategory = "GPU"
              THEN [r0 EXCEPT !.GPUsAllocated = 1] ELSE r0
        r2 == [CPUusagetime |-> CPU_usage_time(r1),
               GPUusagetime |-> GPU_usage_time(r1),
               CPUhours |-> cpu_gpu_core_hours(r1).CPUhours,
               GPUhours |-> cpu_gpu_core_hours(r1).GPUhours,
               NodeHours |-> node_hours(r1),
               RequiredMemoryGB |-> min_memory_required(r1)] @@ r1
    IN  [WastedMemoryRatio |-> wasted_memory(r2, py_division).v,
         MainJobID |-> extract_jobID(r2.Job_ID).v] @@ r2

\* arguments.JobIDs: 'all_jobs', or the ids of a comma-separated list
AllJobs == [all |-> TRUE, ids |-> {}]

JobIDsFilter(ids) == [all |-> FALSE, ids |-> ids]

Raised(e) == [err |-> e, cleaned_df |-> <<>>, final_df |-> <<>>]

still_running_kept(job_record) == FALSE

\* the jobs the filter of cleaned_df drops: still running or pending
still_running(job_record) == job_record.StateCode = -2

\* df_processor as a function of sacct_df: the exception it raises ("" when
\* none) and the tables it leaves.  strict_setitem: this pandas refuses
\* the assignment of the frame that apply returns for an empty filtered_df.
df_processor(df, arguments, py_division, strict_setitem) ==
    LET e162 == FirstErr(MapSeq(requested_memory, df))
        e165 == FirstErr(MapSeq(process_max_rss, df))
        cleaned == GroupByJobID(MapSeq(AddColumns, df))
        filtered == SelectSeq(cleaned, LAMBDA r : ~still_running(r))
        e195 == IF filtered = <<>> /\ strict_setitem THEN "ValueError" ELSE ""
        e198 == FirstErr([i \in 1..Len(filtered) |->
                            categorise_partition(filtered[i].PartitionName)])
        derived == [i \in 1..Len(filtered) |-> DeriveColumns(filtered[i], py_division,
                                                            HasColumn(df, "GPUs"))]
        e220 == FirstErr([i \in 1..Len(derived) |->
                            wasted_memory(derived[i], py_division)])
        e230 == FirstErr([i \in 1..Len(derived) |-> extract_jobID(derived[i].Job_ID)])
        kept == IF arguments.JobIDs.all THEN derived
                ELSE SelectSeq(derived, LAMBDA r : r.MainJobID \in arguments.JobIDs.ids)
    IN  IF e162 # "" THEN Raised(e162)
        ELSE IF e165 # "" THEN Raised(e165)
        ELSE IF e195 # "" THEN Raised(e195)
        ELSE IF e198 # "" THEN Raised(e198)
        ELSE IF e220 # "" THEN Raised(e220)
        ELSE IF e230 # "" THEN Raised(e230)
        ELSE [err |-> "", cleaned_df |-> cleaned, final_df |-> kept]

(***************************************************************************)
(* EnergyEmissionsCalculator.                                              *)
(***************************************************************************)
\* power consumption per GB of memory (W/GB): 0.3725
power_gb_mem == Norm(3725, 10000)

estimate_energy_in_place(job_record) ==
    [f \in {"CPU_energy_estimated_kwh", "GPU_energy_estimated_kwh",
            "memory_energy_estimated_kwh", "energy_estimated_kwh",
            "energy_estimated_noPUE_kwh", "required_memory_energy_estimated_kwh",
            "energy_requiredMem_estimated_kwh", "RequestedMemoryGB"} |->
        job_record.RequiredMemoryGB] @@ job_record

estimate_energy_one_TDP(job_record) ==
    LET tdp == hpc_config.partitions[job_record.PartitionName].TDP
        cpu_kwh == RDiv(RMul(Hours(job_record.CPUusagetime), R(tdp)), R(1000))
        gpu_kwh == IF job_record.PartitionCategory = "CPU" THEN R(0)
                   ELSE RDiv(RMul(Hours(job_record.GPUusagetime), R(tdp)), R(1000))
        mem_kwh == RDiv(RMul(RMul(Hours(job_record.ElapsedRuntime),
                                  job_record.RequestedMemoryGB), power_gb_mem), R(1000))
        req_kwh == RDiv(RMul(RMul(Hours(job_record.ElapsedRuntime),
                                  job_record.RequiredMemoryGB), power_gb_mem), R(1000))
    IN  [CPU_energy_estimated_kwh |-> cpu_kwh,
         GPU_energy_estimated_kwh |-> gpu_kwh,
         memory_energy_estimated_kwh |-> mem_kwh,
         energy_estimated_kwh |->
             RMul(RAdd(RAdd(cpu_kwh, gpu_kwh), mem_kwh), R(hpc_config.PUE)),
         energy_estimated_noPUE_kwh |-> RAdd(RAdd(cpu_kwh, gpu_kwh), mem_kwh),
         required_memory_energy_estimated_kwh |-> req_kwh,
         energy_requiredMem_estimated_kwh |->
             RMul(RAdd(RAdd(cpu_kwh, gpu_kwh), req_kwh), R(hpc_config.PUE))]
        @@ job_record

estimate_energy(job_record) ==
    LET data_partition == hpc_config.partitions[job_record.PartitionName]
        cpu_tdp == IF job_record.PartitionCategory = "CPU"
                   THEN data_partition.TDP ELSE data_partition.CPU_TDP
        gpu_tdp == IF job_record.PartitionCategory = "CPU"
                   THEN 0 ELSE data_partition.TDP
        cpu_kwh == RDiv(RMul(Hours(job_record.CPUusagetime), R(cpu_tdp)), R(1000))
        gpu_kwh == RDiv(RMul(Hours(job_record.GPUusagetime), R(gpu_tdp)), R(1000))
        mem_kwh == RDiv(RMul(RMul(Hours(job_record.ElapsedRuntime),
                                  job_record.RequestedMemoryGB), power_gb_mem), R(1000))
        req_kwh == RDiv(RMul(RMul(Hours(job_record.ElapsedRuntime),
                                  job_record.RequiredMemoryGB), power_gb_mem), R(1000))
    IN  [CPU_energy_estimated_kwh |-> cpu_kwh,
         GPU_energy_estimated_kwh |-> gpu_kwh,
         memory_energy_estimated_kwh |-> mem_kwh,
         energy_estimated_kwh |->
             RMul(RAdd(RAdd(cpu_kwh, gpu_kwh), mem_kwh), R(hpc_config.PUE)),
         energy_estimated_noPUE_kwh |-> RAdd(RAdd(cpu_kwh, gpu_kwh), mem_kwh),
         required_memory_energy_estimated_kwh |-> req_kwh,
         energy_requiredMem_estimated_kwh |->
             RMul(RAdd(RAdd(cpu_kwh, gpu_kwh), req_kwh), R(hpc_config.PUE))]
        @@ job_record

scope2_applies_PUE_all(df_jobs, energy_column) ==
    /\ energy_column = "EnergyIPMI_kwh"
    /\ \A i \in 1..Len(df_jobs) : df_jobs[i][energy_column].n > 0

\* whether scope2_emissions multiplies the energy column by the PUE
scope2_applies_PUE(df_jobs, energy_column) ==
    /\ energy_column = "EnergyIPMI_kwh"
    /\ \E i \in 1..Len(df_jobs) : df_jobs[i][energy_column].n > 0

scope2_emissions(df_jobs, energy_column, carbon_intensity_values) ==
    LET energy_consumption ==
            IF scope2_applies_PUE(df_jobs, energy_column)
            THEN [i \in 1..Len(df_jobs) |->
                    RMul(df_jobs[i][energy_column], R(hpc_config.PUE))]
            ELSE Col(df_jobs, energy_column)
    IN  [i \in 1..Len(df_jobs) |->
            RMul(energy_consumption[i], carbon_intensity_values[i])]

\* float(scope3_argument) for the custom factors of the modelled runs; any
\* other str raises ValueError
CustomScope3 == [number \in {"7", "-5"} |-> IF number = "7" THEN R(7) ELSE R(-5)]

scope3_always_requested(scope3_argument) == FALSE

\* the default selector, for which no factor is looked up
scope3_not_requested(scope3_argument) == scope3_argument = "no_scope3"

\* scope3_emissions: the exception raised ("" when none), the per-job values
\* and whether the per-node-hour factor was determined
scope3_emissions(df_jobs, arguments) ==
    LET scope3_argument == arguments.Scope3
        scope3_per_nodeh ==
            CASE scope3_argument = "Isambard3" -> Ok(R(43))
              [] scope3_argument = "IsambardAI" -> Ok(R(114))
              [] scope3_argument = "Archer2" -> Ok(R(23))
              [] scope3_argument \in DOMAIN CustomScope3 ->
                     Ok(CustomScope3[scope3_argument])
              [] OTHER -> Raise("ValueError")
    IN  IF scope3_not_requested(scope3_argument)
        THEN [err |-> "", v |-> [i \in 1..Len(df_jobs) |-> R(0)], factor_used |-> FALSE]
        ELSE IF scope3_per_nodeh.err # ""
        THEN [err |-> scope3_per_nodeh.err, v |-> <<>>, factor_used |-> TRUE]
        ELSE [err |-> "",
              v |-> [i \in 1..Len(df_jobs) |->
                        RMul(df_jobs[i].NodeHours, scope3_per_nodeh.v)],
              factor_used |-> TRUE]

(***************************************************************************)
(* get_carbon_intensity.                                                   *)
(***************************************************************************)
default_CI == 124

region_map ==
    [r \in {"North Scotland", "South Scotland", "North West England",
            "North East England", "Yorkshire", "North Wales", "South Wales",
            "West Midlands", "East Midlands", "East England",
            "South West England", "South England", "London",
            "South East England"} |->
        CASE r = "North Scotland" -> 1 [] r = "South Scotland" -> 2
          [] r = "North West England" -> 3 [] r = "North East England" -> 4
          [] r = "Yorkshire" -> 5 [] r = "North Wales" -> 6
          [] r = "South Wales" -> 7 [] r = "West Midlands" -> 8
          [] r = "East Midlands" -> 9 [] r = "East England" -> 10
          [] r = "South West England" -> 11 [] r = "South England" -> 12
          [] r = "London" -> 13 [] r = "South East England" -> 14]

\* what one iteration of the loop can meet: the conversion to UTC raises
\* (no request is sent); the request fails (no connection, a timeout, an
\* HTTP error status, a response without the forecast); the oracle answers
OracleForecasts == {100, 300}

region_always_selected(region_name) == FALSE

\* the region for which no request is sent
region_not_selected(region_name) == region_name = "UK_average"

ci_appended_without_default(outcome) == R(outcome.forecast)

\* the value one iteration appends to carbon_intensity_values
ci_appended(outcome) ==
    IF outcome.kind = "ok" THEN R(outcome.forecast) ELSE R(default_CI)

OracleOutcomes ==
    {[kind |-> k, forecast |-> 0] : k \in {"tz_error", "request_failed"}}
    \cup {[kind |-> "ok", forecast |-> v] : v \in OracleForecasts}

(***************************************************************************)
(* aggregate_df and save_output_dfs.                                       *)
(***************************************************************************)
\* SubmissionTime.dt.date, the time being a number of seconds
DayOf(t) == t \div 86400

RSumColumns ==
    {"energy_estimated_kwh", "energy_estimated_noPUE_kwh",
     "CPU_energy_estimated_kwh", "GPU_energy_estimated_kwh",
     "memory_energy_estimated_kwh", "EnergyIPMI_kwh", "Scope2Emissions_gCO2e",
     "Scope2Emissions_IPMI_gCO2e", "Scope2Emissions_requiredMem_gCO2e",
     "Scope2Emissions_failed_gCO2e", "Scope3Emissions_gCO2e",
     "TotalEmissions_gCO2e", "NodeHours", "CPUhours", "GPUhours",
     "RequestedMemoryGB", "RequiredMemoryGB", "UsedMemoryGB"}

ISumColumns == {"CPUusagetime", "GPUusagetime", "ElapsedRuntime"}

\* agg 'mean': over the values that are not NaN
RMean(values) ==
    LET valid == SelectSeq(values, LAMBDA x : x # NaN)
    IN  IF valid = <<>> THEN NaN ELSE RDiv(RSum(valid), R(Len(valid)))

CountDistinct(values) == Cardinality(Range(values) \ {""})

\* agg 'count': the values that are not NaN
CountValid(values) == Len(SelectSeq(values, LAMBDA x : x # ""))

\* the aggregation_dict applied to the rows of one group
AggregateGroup(rows) ==
    [f \in RSumColumns |-> RSum(Col(rows, f))]
    @@ [f \in ISumColumns |-> ISum(Col(rows, f))]
    @@ [JobCount |-> CountValid(Col(rows, "UserName")),
        FirstJobTime |-> IMinSeq(Col(rows, "SubmissionTime")),
        LastJobTime |-> IMaxSeq(Col(rows, "SubmissionTime")),
        CarbonIntensity_gCO2e_kwh |-> RMean(Col(rows, "CarbonIntensity_gCO2e_kwh")),
        WastedMemoryRatio |-> RMean(Col(rows, "WastedMemoryRatio")),
        successful_jobs |-> ISum(Col(rows, "StateCode"))]

RECURSIVE SortInts(_)
SortInts(keys) ==
    IF keys = {} THEN <<>>
    ELSE LET least == CHOOSE k \in keys : \A o \in keys : k <= o
         IN  <<least>> \o SortInts(keys \ {least})

\* aggregation(df, group_by_column): by SubmissionDate, or the whole frame
aggregation(df, by_date) ==
    LET keys == IF by_date THEN SortInts({df[i].SubmissionDate : i \in 1..Len(df)})
                ELSE <<0>>
        grouped == [k \in 1..Len(keys) |->
                      LET rows == IF by_date
                                  THEN SelectSeq(df, LAMBDA r : r.SubmissionDate = keys[k])
                                  ELSE df
                      IN  IF by_date
                          THEN [SubmissionDate |-> keys[k]] @@ AggregateGroup(rows)
                          ELSE AggregateGroup(rows)]
        grand_total == RSum(Col(grouped, "TotalEmissions_gCO2e"))
    IN  [k \in 1..Len(keys) |->
            LET success == RDiv(R(grouped[k].successful_jobs), R(grouped[k].JobCount))
            IN  [SuccessFraction |-> success,
                 FailedFraction |-> RSub(R(1), success),
                 EmissionsFraction |->
                     RDiv(grouped[k].TotalEmissions_gCO2e, grand_total)]
                @@ grouped[k]]

CSVOptions == {"no_save", "full", "daily", "total", "full_summary",
               "daily_summary", "total_summary", "all"}

\* the files save_output_dfs writes for an option
FilesSaved(file_to_save) ==
    {f \in {"full_job_data", "daily_data", "total_data", "full_job_data_summary",
            "daily_data_summary", "total_data_summary"} :
        \/ file_to_save = "all"
        \/ file_to_save = "full" /\ f = "full_job_data"
        \/ file_to_save = "daily" /\ f = "daily_data"
        \/ file_to_save = "total" /\ f = "total_data"
        \/ file_to_save = "full_summary" /\ f = "full_job_data_summary"
        \/ file_to_save = "daily_summary" /\ f = "daily_data_summary"
        \/ file_to_save = "total_summary" /\ f = "total_data_summary"}

save_output_dfs_unchecked(file_to_save) ==
    [err |-> IF file_to_save \notin CSVOptions \ {"all"} THEN "ValueError" ELSE "",
     files |-> FilesSaved(file_to_save)]

\* save_output_dfs: the exception raised ("" when none) and the files written
save_output_dfs(file_to_save) ==
    IF file_to_save \notin CSVOptions
    THEN [err |-> "ValueError", files |-> {}]
    ELSE [err |-> "", files |-> FilesSaved(file_to_save)]

(***************************************************************************)
(* The inputs of a run: the rows sacct prints (retrieve_job_logs,          *)
(* df_conversion) and the user's arguments.                                *)
(***************************************************************************)
\* the row of a job allocation
JobRow(id) ==
    [JobID |-> id, UID |-> "1001", User |-> "alice", Partition |-> <<"cpu">>,
     JobName |-> "sim", Submit |-> 3600, State |-> "COMPLETED", Elapsed |-> 3600,
     GPUs |-> 0, NNodes |-> 1, NCPUS |-> 2, TotalCPU |-> 3600, CPUTime |-> 7200,
     ReqMem |-> <<"2", "G">>, MaxRSS |-> <<>>, WorkDir |-> "/home/alice",
     ConsumedEnergyRaw |-> 0]

\* the row of a job step: sacct leaves its user and partition empty
StepRow(id) ==
    [JobRow(id) EXCEPT !.UID = "", !.User = "", !.Partition = <<>>,
                       !.JobName = "batch", !.ReqMem = <<>>,
                       !.MaxRSS = <<"5", "0", "0", "0", "0", "0", "K">>]

TerminalAndActiveStates == {"COMPLETED", "FAILED", "RUNNING"}

DefaultArguments ==
    [JobIDs |-> AllJobs, Region |-> "UK_average", Scope3 |-> "no_scope3",
     CSV |-> "no_save"]

\* jobs, array tasks and steps in every state, with and without a job filter
JobsFamily ==
    [rows |-> {[JobRow(id) EXCEPT !.State = st] :
                   id \in {<<"7">>, <<"7", "_", "1">>, <<"7", "_", "2">>, <<"8">>},
                   st \in TerminalAndActiveStates}
              \cup {[StepRow(<<"7", ".", "b">>) EXCEPT !.State = st] :
                       st \in TerminalAndActiveStates},
     args |-> {[DefaultArguments EXCEPT !.JobIDs = j] :
                   j \in {AllJobs, JobIDsFilter({<<"7">>})}}]

\* requested and used memory in every form
MemoryFamily ==
    [rows |-> {[JobRow(<<"7">>) EXCEPT !.ReqMem = req, !.MaxRSS = rss] :
                   req \in {<<>>, <<"2", "G">>, <<"5", "0", "0", "M">>,
                            <<"4", "0", "0", "0", "M">>},
                   rss \in {<<>>, <<"0">>, <<"3", "G">>, <<"3", "0", "0", "M">>,
                            <<"1", "5", "0", "0", "0", "0", "0", "K">>,
                            <<"2", "5", "0", "0", "0", "0", "0">>}}
              \cup {[JobRow(<<"8">>) EXCEPT !.ReqMem = <<"1", "G", "n">>, !.NNodes = 2],
                    [JobRow(<<"9">>) EXCEPT !.ReqMem = <<"1", "G", "c">>]},
     args |-> {DefaultArguments}]

\* run times, measured energy, submission days and partitions of three jobs
EnergyRows(id, days) ==
    {[JobRow(id) EXCEPT !.Elapsed = el, !.CPUTime = 2 * el, !.TotalCPU = el \div 2,
                        !.ConsumedEnergyRaw = joules,
                        !.Submit = day * 86400 + 3600,
                        !.State = IF id = <<"8">> THEN "FAILED" ELSE "COMPLETED",
                        !.Partition = IF id = <<"9">> THEN <<"gpu">> ELSE <<"cpu">>,
                        !.GPUs = IF id = <<"9">> THEN 1 ELSE 0] :
        el \in {0, 3600}, joules \in {0, 3600000}, day \in days}

EnergyFamily ==
    [rows |-> EnergyRows(<<"7">>, {0}) \cup EnergyRows(<<"8">>, {0, 1})
              \cup EnergyRows(<<"9">>, {0}),
     args |-> {[DefaultArguments EXCEPT !.Scope3 = s3] :
                   s3 \in {"no_scope3", "Isambard3", "7", "-5", "bogus"}}]

\* regions, with the other selectors valid and invalid
RegionFamily ==
    [rows |-> {[JobRow(id) EXCEPT !.Submit = IF id = <<"9">> THEN 90000 ELSE 3600] :
                   id \in {<<"7">>, <<"8">>, <<"9">>}},
     args |-> {[DefaultArguments EXCEPT !.Region = rg, !.Scope3 = s3] :
                   rg \in {"UK_average", "London", "Atlantis"},
                   s3 \in {"no_scope3", "bogus"}}
              \cup {[DefaultArguments EXCEPT !.CSV = csv] : csv \in {"all", "csv"}}]

\* jobs of one or two users on partitions the configuration has or lacks
UsersFamily ==
    [rows |-> {[JobRow(<<"7">>) EXCEPT !.Partition = pt, !.State = st] :
                   pt \in {<<"cpu">>, <<"gpu", "cpu">>, <<"himem">>, <<>>},
                   st \in {"COMPLETED", "RUNNING"}}
              \cup {[JobRow(<<"8">>) EXCEPT !.User = user, !.Partition = pt,
                                            !.State = st] :
                       user \in {"alice", "bob"}, pt \in {<<"cpu">>, <<"himem">>},
                       st \in {"COMPLETED", "RUNNING"}}
              \cup {StepRow(<<"7", ".", "b">>)},
     args |-> {[DefaultArguments EXCEPT !.JobIDs = j] :
                   j \in {AllJobs, JobIDsFilter({<<"8">>})}}]

\* a job on two nodes and its steps, which ran for less time on fewer CPUs
\* and report the memory, the CPU time and the energy the allocation lacks
StepsFamily ==
    [rows |-> {[JobRow(<<"7">>) EXCEPT !.NCPUS = 4, !.NNodes = 2, !.CPUTime = 14400,
                                            !.TotalCPU = cpu, !.Partition = <<pt>>,
                                            !.GPUs = IF pt = "gpu" THEN 2 ELSE 0] :
                   cpu \in {0, 5400}, pt \in {"cpu", "gpu"}}
              \cup {[StepRow(<<"7", ".", "b">>) EXCEPT !.Elapsed = 1800, !.CPUTime = 3600,
                                                     !.TotalCPU = cpu, !.Submit = 3660,
                                                     !.ConsumedEnergyRaw = 3600000] :
                       cpu \in {0, 1700}}
              \cup {[StepRow(<<"7", ".", "x">>) EXCEPT !.JobName = "extern", !.NCPUS = 4,
                                                     !.NNodes = 2, !.CPUTime = 14400,
                                                     !.TotalCPU = 0, !.Submit = 3600,
                                                     !.MaxRSS = <<"3", "G">>,
                                                     !.ReqMem = <<"2", "G">>]}
              \cup {[JobRow(<<"8">>) EXCEPT !.Elapsed = 7200, !.CPUTime = 14400,
                                            !.Submit = 90000, !.State = "FAILED"]},
     args |-> {DefaultArguments}]

\* a row without the columns an old SLURM does not print
Without(row, columns) == [f \in DOMAIN row \ columns |-> row[f]]

\* the output of a sacct that prints neither CPUTime nor AllocTRES
OldSlurmFamily ==
    [rows |-> {Without([JobRow(id) EXCEPT !.NCPUS = 4, !.TotalCPU = cpu,
                                          !.Partition = <<pt>>],
                       {"CPUTime", "GPUs"}) :
                   id \in {<<"7">>, <<"8">>}, cpu \in {0, 1800}, pt \in {"cpu", "gpu"}}
              \cup {Without([StepRow(<<"7", ".", "b">>) EXCEPT !.Elapsed = 1800,
                                                              !.TotalCPU = 0],
                            {"CPUTime", "GPUs"})},
     args |-> {DefaultArguments}]

Families == {JobsFamily, MemoryFamily, EnergyFamily, RegionFamily, UsersFamily,
             StepsFamily, OldSlurmFamily}

\* sacct prints each JobID once, in order, a job's steps after the job itself
SacctOrder(df) ==
    /\ \A i \in 1..Len(df) - 1 : StrLess(df[i].JobID, df[i + 1].JobID)
    /\ \A i \in 1..Len(df) :
          SplitLen(df[i].JobID, ".") > 1 =>
              \E k \in 1..i - 1 : df[k].JobID = SplitHead(df[i].JobID, ".")

SacctOutputs(rows) ==
    {df \in UNION {[1..k -> rows] : k \in 0..MaxRows} : SacctOrder(df)}

(***************************************************************************)
(* The state of a run of core_engine.                                      *)
(***************************************************************************)
VARIABLES
    pc,                       \* the statement core_engine is at
    sacct_df,                 \* JLP.sacct_df, as df_conversion leaves it
    arguments,                \* the user's arguments
    final_df,                 \* the frame get_job_logs returns
    df_jobs,                  \* the frame add_emissions_data works on
    carbon_intensity_values,  \* the list get_carbon_intensity builds
    api_calls,                \* the requests sent to the oracle, with the answers
    scope3_factor_used,       \* whether scope3_emissions determined a factor
    full_df, daily_df, total_df,   \* the tables aggregate_df returns
    saved_files,              \* the CSV files written
    error,                    \* the exception that ended the run
    call,                     \* a normaliser called on its own, with its argument
    returned                  \* what the call returned or raised

vars == <<pc, sacct_df, arguments, final_df, df_jobs, carbon_intensity_values,
          api_calls, scope3_factor_used, full_df, daily_df, total_df,
          saved_files, error, call, returned>>

\* the variables of a run of core_engine
run_vars == <<pc, sacct_df, arguments, final_df, df_jobs, carbon_intensity_values,
              api_calls, scope3_factor_used, full_df, daily_df, total_df,
              saved_files, error>>

NoCall == [function |-> ""]

NotReturned == [err |-> "not returned"]

HasReturned == returned.err # "not returned"

NoError == [kind |-> "", raised_in |-> ""]

Init ==
    /\ \E family \in Families :
          /\ sacct_df \in SacctOutputs(family.rows)
          /\ arguments \in family.args
    /\ pc = "exit_if_no_jobs"
    /\ final_df = <<>>
    /\ df_jobs = <<>>
    /\ carbon_intensity_values = <<>>
    /\ api_calls = <<>>
    /\ scope3_factor_used = FALSE
    /\ full_df = <<>>
    /\ daily_df = <<>>
    /\ total_df = <<>>
    /\ saved_files = {}
    /\ error = NoError
    /\ call = NoCall
    /\ returned = NotReturned

\* a raise that nothing catches: the run ends with the exception
Fail(kind, where) ==
    /\ pc' = "failed"
    /\ error' = [kind |-> kind, raised_in |-> where]

\* get_job_logs: exit_if_no_jobs(JLP.sacct_df, arguments)
ExitIfNoJobs ==
    /\ pc = "exit_if_no_jobs"
    /\ pc' = IF sacct_df = <<>> THEN "exited" ELSE "df_processor"
    /\ UNCHANGED <<sacct_df, arguments, final_df, df_jobs, carbon_intensity_values,
                   api_calls, scope3_factor_used, full_df, daily_df, total_df,
                   saved_files, error>>
    /\ UNCHANGED <<call, returned>>

\* get_job_logs: JLP.df_processor()
DfProcessor ==
    /\ pc = "df_processor"
    /\ \E py_division, strict_setitem \in BOOLEAN :
          LET result == df_processor(sacct_df, arguments, py_division, strict_setitem)
          IN  IF result.err # ""
              THEN /\ Fail(result.err, "df_processor")
                   /\ UNCHANGED final_df
              ELSE /\ final_df' = result.final_df
                   /\ pc' = "exit_if_no_jobs_left"
                   /\ UNCHANGED error
    /\ UNCHANGED <<sacct_df, arguments, df_jobs, carbon_intensity_values, api_calls,
                   scope3_factor_used, full_df, daily_df, total_df, saved_files>>
    /\ UNCHANGED <<call, returned>>

\* get_job_logs: exit_if_no_jobs(JLP.filtered_df, arguments)
ExitIfNoJobsLeft ==
    /\ pc = "exit_if_no_jobs_left"
    /\ pc' = IF final_df = <<>> THEN "exited" ELSE "single_user"
    /\ UNCHANGED <<sacct_df, arguments, final_df, df_jobs, carbon_intensity_values,
                   api_calls, scope3_factor_used, full_df, daily_df, total_df,
                   saved_files, error>>
    /\ UNCHANGED <<call, returned>>

single_user_unchecked(df) == TRUE

\* get_job_logs: not more than one distinct UserName
single_user(df) == Cardinality(Range(Col(df, "UserName"))) <= 1

\* get_job_logs: the single-user check and the return of final_df
CheckSingleUser ==
    /\ pc = "single_user"
    /\ IF ~single_user(final_df)
       THEN /\ Fail("ValueError", "get_job_logs")
            /\ UNCHANGED df_jobs
       ELSE /\ df_jobs' = final_df
            /\ pc' = "estimate_energy"
            /\ UNCHANGED error
    /\ UNCHANGED <<sacct_df, arguments, final_df, carbon_intensity_values, api_calls,
                   scope3_factor_used, full_df, daily_df, total_df, saved_files>>
    /\ UNCHANGED <<call, returned>>

\* add_emissions_data: the energy estimates and failed_energy_kwh
EstimateEnergy ==
    /\ pc = "estimate_energy"
    /\ df_jobs' = [i \in 1..Len(df_jobs) |->
                     LET job == estimate_energy(df_jobs[i])
                     IN  [failed_energy_kwh |->
                              IF job.StateCode = 0 THEN job.energy_estimated_kwh
                              ELSE R(0)] @@ job]
    /\ pc' = "get_carbon_intensity"
    /\ UNCHANGED <<sacct_df, arguments, final_df, carbon_intensity_values, api_calls,
                   scope3_factor_used, full_df, daily_df, total_df, saved_files, error>>
    /\ UNCHANGED <<call, returned>>

\* get_carbon_intensity, up to its loop
GetCarbonIntensity ==
    /\ pc = "get_carbon_intensity"
    /\ IF region_not_selected(arguments.Region)
       THEN /\ carbon_intensity_values' = [i \in 1..Len(df_jobs) |-> R(default_CI)]
            /\ pc' = "add_emissions"
            /\ UNCHANGED error
       ELSE IF arguments.Region \notin DOMAIN region_map
       THEN /\ Fail("ValueError", "get_carbon_intensity")
            /\ UNCHANGED carbon_intensity_values
       ELSE /\ carbon_intensity_values' = <<>>
            /\ pc' = "query_oracle"
            /\ UNCHANGED error
    /\ UNCHANGED <<sacct_df, arguments, final_df, df_jobs, api_calls,
                   scope3_factor_used, full_df, daily_df, total_df, saved_files>>
    /\ UNCHANGED <<call, returned>>

\* get_carbon_intensity: one iteration of the loop over the submission times
QueryOracle ==
    /\ pc = "query_oracle"
    /\ \E outcome \in OracleOutcomes :
          LET job == Len(carbon_intensity_values) + 1
          IN  /\ carbon_intensity_values' =
                    Append(carbon_intensity_values, ci_appended(outcome))
              /\ api_calls' =
                    IF outcome.kind = "tz_error" THEN api_calls
                    ELSE Append(api_calls,
                                [job |-> job,
                                 from_utc |-> df_jobs[job].SubmissionTime,
                                 region_id |-> region_map[arguments.Region],
                                 response |-> outcome])
              /\ pc' = IF job = Len(df_jobs) THEN "add_emissions" ELSE "query_oracle"
    /\ UNCHANGED <<sacct_df, arguments, final_df, df_jobs, scope3_factor_used,
                   full_df, daily_df, total_df, saved_files, error>>
    /\ UNCHANGED <<call, returned>>

totals_use_IPMI_any(df) == \E i \in 1..Len(df) : df[i].EnergyIPMI_kwh.n > 0

\* add_emissions_data: whether the totals are built from the energy counters
totals_use_IPMI(df) == \A i \in 1..Len(df) : df[i].EnergyIPMI_kwh.n > 0

\* add_emissions_data: the columns added once the carbon intensities are known
emissions_columns(df, ci_values, scope3_values) ==
    LET scope2 == scope2_emissions(df, "energy_estimated_kwh", ci_values)
        scope2_IPMI == scope2_emissions(df, "EnergyIPMI_kwh", ci_values)
        scope2_required == scope2_emissions(df, "energy_requiredMem_estimated_kwh",
                                            ci_values)
        scope2_failed == scope2_emissions(df, "failed_energy_kwh", ci_values)
    IN  [i \in 1..Len(df) |->
            [CarbonIntensity_gCO2e_kwh |-> ci_values[i],
             Scope2Emissions_gCO2e |-> scope2[i],
             Scope2Emissions_IPMI_gCO2e |-> scope2_IPMI[i],
             Scope3Emissions_gCO2e |-> scope3_values[i],
             Scope2Emissions_requiredMem_gCO2e |-> scope2_required[i],
             Scope2Emissions_failed_gCO2e |-> scope2_failed[i],
             TotalEmissions_gCO2e |->
                 IF totals_use_IPMI(df)
                 THEN RAdd(scope2_IPMI[i], scope3_values[i])
                 ELSE RAdd(scope2[i], scope3_values[i])] @@ df[i]]

\* add_emissions_data, from the carbon intensities to its return (the cost
\* and the contextual equivalents, which nothing reads, are left out)
AddEmissions ==
    /\ pc = "add_emissions"
    /\ LET scope3 == scope3_emissions(df_jobs, arguments)
       IN  /\ scope3_factor_used' = scope3.factor_used
           /\ IF scope3.err # ""
              THEN /\ Fail(scope3.err, "scope3_emissions")
                   /\ UNCHANGED df_jobs
              ELSE /\ df_jobs' = emissions_columns(df_jobs, carbon_intensity_values,
                                                   scope3.v)
                   /\ pc' = "aggregate_df"
                   /\ UNCHANGED error
    /\ UNCHANGED <<sacct_df, arguments, final_df, carbon_intensity_values, api_calls,
                   full_df, daily_df, total_df, saved_files>>
    /\ UNCHANGED <<call, returned>>

\* aggregate_df
AggregateDf ==
    /\ pc = "aggregate_df"
    /\ LET dated == [i \in 1..Len(df_jobs) |->
                       [SubmissionDate |-> DayOf(df_jobs[i].SubmissionTime)]
                       @@ df_jobs[i]]
       IN  /\ df_jobs' = dated
           /\ full_df' = dated
           /\ daily_df' = aggregation(dated, TRUE)
           /\ total_df' = aggregation(dated, FALSE)
    /\ pc' = "save_output_dfs"
    /\ UNCHANGED <<sacct_df, arguments, final_df, carbon_intensity_values, api_calls,
                   scope3_factor_used, saved_files, error>>
    /\ UNCHANGED <<call, returned>>

\* save_output_dfs, and the return of core_engine
SaveOutputDfs ==
    /\ pc = "save_output_dfs"
    /\ LET saved == save_output_dfs(arguments.CSV)
       IN  /\ saved_files' = saved.files
           /\ IF saved.err # ""
              THEN Fail(saved.err, "save_output_dfs")
              ELSE /\ pc' = "done"
                   /\ UNCHANGED error
    /\ UNCHANGED <<sacct_df, arguments, final_df, df_jobs, carbon_intensity_values,
                   api_calls, scope3_factor_used, full_df, daily_df, total_df>>
    /\ UNCHANGED <<call, returned>>

Next ==
    \/ ExitIfNoJobs
    \/ DfProcessor
    \/ ExitIfNoJobsLeft
    \/ CheckSingleUser
    \/ EstimateEnergy
    \/ GetCarbonIntensity
    \/ QueryOracle
    \/ AddEmissions
    \/ AggregateDf
    \/ SaveOutputDfs

Spec == Init /\ [][Next]_vars

(***************************************************************************)
(* The normalisers called on their own, each on one argument.              *)
(***************************************************************************)
MaxDayPrefixes == 2

MaxTimeComponents == 4

MaxFractions == 2

RECURSIVE Concat(_)
Concat(strs) == IF strs = <<>> THEN <<>> ELSE Head(strs) \o Concat(Tail(strs))

SeqsOf(tokens, shortest, longest) ==
    UNION {[1..k -> tokens] : k \in shortest..longest}

\* the parts a duration field is written from: day prefixes, each followed
\* by '-', components joined by ':', and suffixes, each after a '.'
DurationParts ==
    [days : SeqsOf({<<"1">>, <<"x">>, <<>>}, 0, MaxDayPrefixes),
     components : SeqsOf({<<"7">>, <<"0", "5">>, <<"x">>}, 1, MaxTimeComponents),
     fractions : SeqsOf({<<"5", "0", "0">>, <<"5">>}, 0, MaxFractions)]

\* the field as sacct prints it
DurationField(parts) ==
    Concat([i \in 1..Len(parts.days) |-> parts.days[i] \o <<"-">>])
    \o Concat([i \in 1..Len(parts.components) |->
                  IF i = 1 THEN parts.components[i]
                  ELSE <<":">> \o parts.components[i]])
    \o Concat([i \in 1..Len(parts.fractions) |-> <<".">> \o parts.fractions[i]])

StrToTimedeltaCalls ==
    {[function |-> "str_to_timedelta", parts |-> parts,
      time_string |-> DurationField(parts)] : parts \in DurationParts}

MaxNodes == 3

MaxCPUs == 2

\* the parts a ReqMem field is written from: a number, a unit and the
\* per-node or per-CPU mark; no part at all is the missing field
ReqMemParts ==
    [value : {<<"4">>, <<"2", "5">>, <<"x">>, <<>>},
     unit : {<<"M">>, <<"G">>, <<"K">>, <<"T">>, <<>>},
     per : {<<"n">>, <<"c">>, <<>>}]
    \cup [value : {<<"5", "0", "0", "0", "0", "0">>},
          unit : {<<"M">>, <<"G">>, <<"K">>}, per : {<<"c">>, <<>>}]

RequestedMemoryCalls ==
    {[function |-> "requested_memory", parts |-> parts,
      job_record |-> [ReqMem |-> parts.value \o parts.unit \o parts.per,
                      NNodes |-> nodes, NCPUS |-> cpus]] :
        parts \in ReqMemParts, nodes \in 1..MaxNodes, cpus \in 1..MaxCPUs}
    \cup {[function |-> "requested_memory",
           parts |-> [value |-> <<"4", "0", "0", "0">>, unit |-> <<"M">>,
                      per |-> <<"n">>],
           job_record |-> [ReqMem |-> <<"4", "0", "0", "0", "M", "n">>,
                           NNodes |-> nodes, NCPUS |-> 1]] : nodes \in 1..2}

\* State tokens of sacct, and tokens it does not know ("" is the missing one)
StateTokens ==
    {"CD", "COMPLETED", "PD", "PENDING", "R", "RUNNING", "RQ", "REQUEUED",
     "F", "FAILED", "CANCELLED", "CANCELLED by 1001", "TIMEOUT", "NODE_FAIL",
     "OUT_OF_MEMORY", "completed", "Running", "COMPLETING", "SUSPENDED", ""}

StandardiseStatesCalls ==
    {[function |-> "standardise_states", job_state |-> token] :
        token \in StateTokens}

Calls == StrToTimedeltaCalls \cup RequestedMemoryCalls \cup StandardiseStatesCalls

InitCalls ==
    /\ call \in Calls
    /\ returned = NotReturned
    /\ pc = "idle"
    /\ sacct_df = <<>>
    /\ arguments = DefaultArguments
    /\ final_df = <<>>
    /\ df_jobs = <<>>
    /\ carbon_intensity_values = <<>>
    /\ api_calls = <<>>
    /\ scope3_factor_used = FALSE
    /\ full_df = <<>>
    /\ daily_df = <<>>
    /\ total_df = <<>>
    /\ saved_files = {}
    /\ error = NoError

\* self.str_to_timedelta(time_string)
CallStrToTimedelta ==
    /\ call.function = "str_to_timedelta"
    /\ ~HasReturned
    /\ returned' = str_to_timedelta(call.time_string)
    /\ UNCHANGED <<call, run_vars>>

\* self.requested_memory(job_record)
CallRequestedMemory ==
    /\ call.function = "requested_memory"
    /\ ~HasReturned
    /\ returned' = requested_memory(call.job_record)
    /\ UNCHANGED <<call, run_vars>>

\* self.standardise_states(job_state)
CallStandardiseStates ==
    /\ call.function = "standardise_states"
    /\ ~HasReturned
    /\ returned' = [err |-> "", v |-> standardise_states(call.job_state)]
    /\ UNCHANGED <<call, run_vars>>

NextCalls ==
    \/ CallStrToTimedelta
    \/ CallRequestedMemory
    \/ CallStandardiseStates

SpecCalls == InitCalls /\ [][NextCalls]_vars

(***************************************************************************)
(* Properties of df_processor.                                             *)
(***************************************************************************)
\* df_processor has returned its frame
Processed ==
    /\ pc \notin {"exit_if_no_jobs", "df_processor"}
    /\ error.raised_in # "df_processor"
    /\ sacct_df # <<>>

ActiveStates == {"PD", "PENDING", "R", "RUNNING", "RQ", "REQUEUED"}

\* the job identifiers sacct reported, the step suffix removed
InputJobIDs == {SplitHead(sacct_df[i].JobID, ".") : i \in DOMAIN sacct_df}

\* the sacct rows of one job (the job itself and its steps)
StepsOf(id) == {i \in DOMAIN sacct_df : SplitHead(sacct_df[i].JobID, ".") = id}

OutputJobIDs == {final_df[i].Job_ID : i \in DOMAIN final_df}

\* C1: with JobIDs = 'all_jobs', a job id is in the output of df_processor
\* exactly when none of the job's rows has an active state; a job with an
\* active row is dropped whole, and the StateCode of a record is the minimum
\* over the job's rows (1 only when every row succeeded, never -2).
C1_ActiveJobsDropped ==
    (Processed /\ arguments.JobIDs.all) =>
        /\ OutputJobIDs =
              {id \in InputJobIDs :
                  \A i \in StepsOf(id) : sacct_df[i].State \notin ActiveStates}
        /\ \A i \in DOMAIN final_df :
              /\ final_df[i].StateCode \in {0, 1}
              /\ final_df[i].StateCode = 1 <=>
                    \A k \in StepsOf(final_df[i].Job_ID) :
                        sacct_df[k].State \in {"CD", "COMPLETED"}

\* a finished job is kept while a job with one finished and one running row
\* is dropped
C1_Witness ==
    /\ Processed /\ arguments.JobIDs.all
    /\ final_df # <<>>
    /\ \E id \in InputJobIDs :
          /\ \E i \in StepsOf(id) : sacct_df[i].State \in ActiveStates
          /\ \E i \in StepsOf(id) : sacct_df[i].State \notin ActiveStates
          /\ id \notin OutputJobIDs

\* C2: df_processor emits one record per job identifier with the step suffix
\* removed and the array-task suffix kept: no two records share a Job_ID,
\* every Job_ID is such an identifier of the input, and MainJobID is the
\* Job_ID up to its first '_'.
C2_OneRecordPerJobID ==
    Processed =>
        /\ \A i, j \in DOMAIN final_df :
              i # j => final_df[i].Job_ID # final_df[j].Job_ID
        /\ \A i \in DOMAIN final_df :
              /\ final_df[i].Job_ID \in InputJobIDs
              /\ final_df[i].MainJobID = SplitHead(final_df[i].Job_ID, "_")

\* two tasks of one array job, each with its own record
C2_Witness ==
    /\ Processed
    /\ \E i, j \in DOMAIN final_df :
          /\ i # j
          /\ final_df[i].MainJobID = final_df[j].MainJobID
    /\ \E id \in InputJobIDs : Cardinality(StepsOf(id)) > 1

\* C2 as stated: no two output records share a MainJobID
C2_OneRecordPerMainJobID ==
    Processed =>
        \A i, j \in DOMAIN final_df :
            i # j => final_df[i].MainJobID # final_df[j].MainJobID

\* C3 as stated: the WastedMemoryRatio of every record is computed without
\* an exception and is a finite number, at least 1, and 1 when the requested
\* memory is below the required memory.
C3_WastedMemoryRatioDefined ==
    /\ error.kind # "ZeroDivisionError"
    /\ Processed =>
          \A i \in DOMAIN final_df :
              /\ IsFinite(final_df[i].WastedMemoryRatio)
              /\ RLe(R(1), final_df[i].WastedMemoryRatio)
              /\ RLt(final_df[i].RequestedMemoryGB, final_df[i].RequiredMemoryGB)
                    => final_df[i].WastedMemoryRatio = R(1)

(***************************************************************************)
(* Properties of aggregate_df.                                             *)
(***************************************************************************)
\* aggregate_df has returned its three tables
Aggregated == total_df # <<>>

\* C4 as stated: in the daily and the whole-run view the EmissionsFraction
\* values sum to 1 when the grand total of TotalEmissions_gCO2e is not zero,
\* and every EmissionsFraction is 0 when the grand total is zero.
C4_EmissionsFractionPolicy ==
    Aggregated =>
        \A view \in {daily_df, total_df} :
            IF RSum(Col(view, "TotalEmissions_gCO2e")) # R(0)
            THEN RSum(Col(view, "EmissionsFraction")) = R(1)
            ELSE \A g \in DOMAIN view : view[g].EmissionsFraction = R(0)

\* C5: every job falls in exactly one daily row, the row of the date of its
\* SubmissionTime, which counts it; the TotalEmissions_gCO2e of the daily
\* rows sum to that of the whole-run row, which is the sum over the jobs;
\* the daily JobCounts sum to the whole-run JobCount, which is the number of
\* rows of the full table.
C5_DailyViewPartitions ==
    Aggregated =>
        /\ \A i \in DOMAIN full_df :
              Cardinality({d \in DOMAIN daily_df :
                  daily_df[d].SubmissionDate = full_df[i].SubmissionTime \div 86400}) = 1
        /\ \A d \in DOMAIN daily_df :
              daily_df[d].JobCount =
                  Cardinality({i \in DOMAIN full_df :
                      full_df[i].SubmissionTime \div 86400 = daily_df[d].SubmissionDate})
        /\ Len(total_df) = 1
        /\ RSum(Col(daily_df, "TotalEmissions_gCO2e")) = total_df[1].TotalEmissions_gCO2e
        /\ total_df[1].TotalEmissions_gCO2e = RSum(Col(full_df, "TotalEmissions_gCO2e"))
        /\ ISum(Col(daily_df, "JobCount")) = total_df[1].JobCount
        /\ total_df[1].JobCount = Len(full_df)

\* three jobs over two dates, two of them on the same date
C5_Witness ==
    /\ Aggregated
    /\ Len(full_df) = 3
    /\ Len(daily_df) = 2
    /\ \E d \in DOMAIN daily_df : daily_df[d].JobCount = 2
    /\ total_df[1].TotalEmissions_gCO2e.n > 0

(***************************************************************************)
(* Properties of get_carbon_intensity.                                     *)
(***************************************************************************)
\* get_carbon_intensity has returned its values
CIReturned ==
    \/ pc \in {"add_emissions", "aggregate_df", "save_output_dfs", "done"}
    \/ pc = "failed" /\ error.raised_in \in {"scope3_emissions", "save_output_dfs"}

\* C6: for a named region the loop makes one iteration per job and stops
\* after the last job with one value per job; at most one request is sent
\* per job, in job order and for the job's submission time; a job whose
\* request was answered has the forecast of that answer, every other job has
\* 124; get_carbon_intensity raises nothing.
C6_OneQueryPerJob ==
    arguments.Region \in DOMAIN region_map =>
        /\ error.raised_in # "get_carbon_intensity"
        /\ Len(carbon_intensity_values) <= Len(df_jobs)
        /\ pc = "query_oracle" => Len(carbon_intensity_values) < Len(df_jobs)
        /\ CIReturned => Len(carbon_intensity_values) = Len(df_jobs)
        /\ \A c \in DOMAIN api_calls :
              /\ api_calls[c].job \in DOMAIN carbon_intensity_values
              /\ c > 1 => api_calls[c - 1].job < api_calls[c].job
              /\ api_calls[c].from_utc = df_jobs[api_calls[c].job].SubmissionTime
              /\ api_calls[c].region_id = region_map[arguments.Region]
        /\ \A j \in DOMAIN carbon_intensity_values :
              LET answered == {c \in DOMAIN api_calls :
                                  /\ api_calls[c].job = j
                                  /\ api_calls[c].response.kind = "ok"}
              IN  /\ \A c \in answered :
                        carbon_intensity_values[j] = R(api_calls[c].response.forecast)
                  /\ answered = {} => carbon_intensity_values[j] = R(124)

\* three jobs, the lookup of the second failed and the others were answered
C6_Witness ==
    /\ arguments.Region \in DOMAIN region_map
    /\ CIReturned
    /\ Len(carbon_intensity_values) = 3
    /\ carbon_intensity_values[1] = R(300)
    /\ carbon_intensity_values[2] = R(124)
    /\ carbon_intensity_values[3] = R(100)
    /\ Len(api_calls) = 2

\* C7: with Region = 'UK_average' every job has the value 124 and no request
\* is sent, and get_carbon_intensity raises nothing.
C7_UKAverageNoOracle ==
    arguments.Region = "UK_average" =>
        /\ api_calls = <<>>
        /\ pc # "query_oracle"
        /\ error.raised_in # "get_carbon_intensity"
        /\ CIReturned =>
              carbon_intensity_values = [i \in DOMAIN df_jobs |-> R(124)]

\* a run of three jobs submitted on two dates, with the default region
C7_Witness ==
    /\ arguments.Region = "UK_average"
    /\ pc = "done"
    /\ Len(df_jobs) = 3
    /\ \E i, j \in DOMAIN df_jobs : df_jobs[i].SubmissionTime # df_jobs[j].SubmissionTime

(***************************************************************************)
(* Properties of add_emissions_data.                                       *)
(***************************************************************************)
\* add_emissions_data has returned df_jobs with the emissions columns
EmissionsAdded ==
    \/ pc \in {"aggregate_df", "save_output_dfs", "done"}
    \/ pc = "failed" /\ error.raised_in = "save_output_dfs"

\* C8: with Scope3 = 'no_scope3' scope3_emissions raises nothing, determines
\* no per-node-hour factor, and Scope3Emissions_gCO2e is 0 for every job.
C8_NoScope3 ==
    arguments.Scope3 = "no_scope3" =>
        /\ scope3_factor_used = FALSE
        /\ error.raised_in # "scope3_emissions"
        /\ EmissionsAdded =>
              \A i \in DOMAIN df_jobs : df_jobs[i].Scope3Emissions_gCO2e = R(0)

\* a run with no scope 3 whose jobs used node-hours
C8_Witness ==
    /\ arguments.Scope3 = "no_scope3"
    /\ EmissionsAdded
    /\ Len(df_jobs) > 1
    /\ \A i \in DOMAIN df_jobs : df_jobs[i].NodeHours.n > 0

\* some job of the run has a positive measured energy
AnyMeasured == \E k \in DOMAIN df_jobs : df_jobs[k].EnergyIPMI_kwh.n > 0

\* every job of the run has a positive measured energy
AllMeasured == \A k \in DOMAIN df_jobs : df_jobs[k].EnergyIPMI_kwh.n > 0

C10_Scope2Formula ==
    EmissionsAdded =>
        \A i \in DOMAIN df_jobs :
            LET job == df_jobs[i]
                ci == carbon_intensity_values[i]
            IN  /\ job.CarbonIntensity_gCO2e_kwh = ci
                /\ job.Scope2Emissions_IPMI_gCO2e =
                      IF \A k \in DOMAIN df_jobs : df_jobs[k].EnergyIPMI_kwh = R(0)
                      THEN RMul(job.EnergyIPMI_kwh, ci)
                      ELSE RMul(RMul(job.EnergyIPMI_kwh, R(hpc_config.PUE)), ci)
                /\ job.Scope2Emissions_gCO2e = RMul(job.energy_estimated_kwh, ci)
                /\ job.Scope2Emissions_requiredMem_gCO2e =
                      RMul(job.energy_requiredMem_estimated_kwh, ci)
                /\ job.Scope2Emissions_failed_gCO2e = RMul(job.failed_energy_kwh, ci)

\* a run where one job has a measured energy and another has none, with the
\* carbon intensities of the oracle
C10_Witness ==
    /\ EmissionsAdded
    /\ AnyMeasured
    /\ ~AllMeasured
    /\ \E i \in DOMAIN df_jobs : df_jobs[i].Scope2Emissions_IPMI_gCO2e.n > 0
    /\ \E i \in DOMAIN df_jobs : df_jobs[i].Scope2Emissions_failed_gCO2e.n > 0

(***************************************************************************)
(* Properties of the normalisers.                                          *)
(***************************************************************************)
\* the parts are those of a duration [DD-]HH:MM:SS[.fff] or of a shorter form
IsDuration(parts) ==
    /\ Len(parts.days) <= 1
    /\ Len(parts.components) \in 1..3
    /\ Len(parts.fractions) <= 1
    /\ \A part \in Range(parts.days) \cup Range(parts.components)
                   \cup Range(parts.fractions) :
          /\ part # <<>>
          /\ \A i \in DOMAIN part : part[i] \in Digits

RECURSIVE Decimal(_)
Decimal(digits) ==
    IF digits = <<>> THEN 0
    ELSE 10 * Decimal(SubSeq(digits, 1, Len(digits) - 1))
         + (CHOOSE d \in 0..9 : ToString(d) = digits[Len(digits)])

RECURSIVE Power10(_)
Power10(k) == IF k = 0 THEN 1 ELSE 10 * Power10(k - 1)

\* days, hours, minutes and seconds of the parts, in milliseconds
WholeSeconds(parts) ==
    LET k == Len(parts.components)
        seconds == Decimal(parts.components[k])
        minutes == IF k >= 2 THEN Decimal(parts.components[k - 1]) ELSE 0
        hours == IF k = 3 THEN Decimal(parts.components[1]) ELSE 0
        days == IF parts.days = <<>> THEN 0 ELSE Decimal(parts.days[1])
    IN  (days * 86400 + hours * 3600 + minutes * 60 + seconds) * 1000

\* C18: str_to_timedelta returns, for the parts of a duration, days + hours
\* + minutes + seconds + the suffix read as a whole number of milliseconds
\* (the decimal fraction of a second when the suffix has three digits), and
\* raises ValueError for every other field.
C18_SuffixIsMilliseconds ==
    (call.function = "str_to_timedelta" /\ HasReturned) =>
        IF IsDuration(call.parts)
        THEN /\ returned.err = ""
             /\ returned.v = WholeSeconds(call.parts)
                   + (IF call.parts.fractions = <<>> THEN 0
                      ELSE Decimal(call.parts.fractions[1]))
        ELSE returned.err = "ValueError"

\* the field 1-05:05:07.500 has been parsed (1 day 5 h 5 min 7.5 s)
C18_Witness ==
    /\ call.function = "str_to_timedelta"
    /\ call.time_string = <<"1", "-", "0", "5", ":", "0", "5", ":", "7", ".",
                            "5", "0", "0">>
    /\ returned = [err |-> "", v |-> 104707500]

\* C18 as stated: the suffix is read as the decimal fraction of a second
C18_SuffixIsDecimalFraction ==
    (call.function = "str_to_timedelta" /\ HasReturned) =>
        IF IsDuration(call.parts)
        THEN /\ returned.err = ""
             /\ returned.v = WholeSeconds(call.parts)
                   + (IF call.parts.fractions = <<>> THEN 0
                      ELSE (Decimal(call.parts.fractions[1]) * 1000)
                           \div Power10(Len(call.parts.fractions[1])))
        ELSE returned.err = "ValueError"

\* the parts are a number and one of the units M, G, K
IsQuantity(parts) ==
    /\ parts.value # <<>>
    /\ \A i \in DOMAIN parts.value : parts.value[i] \in Digits
    /\ parts.unit \in {<<"M">>, <<"G">>, <<"K">>}

\* a quantity of the unit, in GB
InGB(quantity, unit) ==
    IF unit = <<"M">> THEN Norm(quantity, 1000)
    ELSE IF unit = <<"K">> THEN Norm(quantity, 1000000)
    ELSE R(quantity)

\* C16 as stated: for '<value><unit>n' on N nodes requested_memory returns
\* value x N, in GB.
C16_PerNodeTimesNodes ==
    (/\ call.function = "requested_memory" /\ HasReturned
     /\ IsQuantity(call.parts) /\ call.parts.per = <<"n">>) =>
        /\ returned.err = ""
        /\ returned.v = InGB(Decimal(call.parts.value) * call.job_record.NNodes,
                             call.parts.unit)

\* C17: requested_memory returns value x NCPUS in GB for '<value><unit>c',
\* the value in GB for '<value><unit>', 0 for the missing field, and raises
\* for every other field that is not a per-node quantity.
C17_PerCPUBareMissingRejected ==
    (call.function = "requested_memory" /\ HasReturned) =>
        LET parts == call.parts
        IN  IF call.job_record.ReqMem = <<>>
            THEN returned = [err |-> "", v |-> R(0)]
            ELSE IF IsQuantity(parts) /\ parts.per = <<"c">>
            THEN returned = [err |-> "",
                             v |-> InGB(Decimal(parts.value) * call.job_record.NCPUS,
                                        parts.unit)]
            ELSE IF IsQuantity(parts) /\ parts.per = <<>>
            THEN returned = [err |-> "", v |-> InGB(Decimal(parts.value), parts.unit)]
            ELSE IF IsQuantity(parts)
            THEN TRUE
            ELSE returned.err \in {"ValueError", "AssertionError", "IndexError"}

\* 500000K per CPU on two CPUs has given 1 GB
C17_Witness ==
    /\ call.function = "requested_memory"
    /\ call.job_record.ReqMem = <<"5", "0", "0", "0", "0", "0", "K", "c">>
    /\ call.job_record.NCPUS = 2
    /\ HasReturned
    /\ returned.v = R(1)

\* C19: standardise_states returns 1 for CD and COMPLETED, -2 for the six
\* active tokens and 0 for every other token.
C19_StateCodes ==
    (call.function = "standardise_states" /\ HasReturned) =>
        /\ returned.err = ""
        /\ returned.v \in {1, 0, -2}
        /\ returned.v = 1 <=> call.job_state \in {"CD", "COMPLETED"}
        /\ returned.v = -2 <=> call.job_state \in ActiveStates

\* a token sacct does not know has been given the code 0
C19_Witness ==
    /\ call.function = "standardise_states"
    /\ call.job_state = "completed"
    /\ HasReturned
    /\ returned.v = 0

(***************************************************************************)
(* Properties of a run of core_engine.                                     *)
(***************************************************************************)
\* the region or the Scope3 selector is one the code does not support
UnsupportedConfiguration ==
    \/ arguments.Region \notin DOMAIN region_map \cup {"UK_average"}
    \/ arguments.Scope3 \notin {"no_scope3", "Isambard3", "IsambardAI", "Archer2"}
                               \cup DOMAIN CustomScope3

\* the energy of some job has been estimated
EnergyEstimated ==
    \E i \in DOMAIN df_jobs : "energy_estimated_kwh" \in DOMAIN df_jobs[i]

\* C11 as stated: in a run with an unsupported region or Scope3 selector no
\* energy is estimated and no request is sent to the oracle.
C11_ConfigurationCheckedFirst ==
    UnsupportedConfiguration => (~EnergyEstimated /\ api_calls = <<>>)

\* C12: a run that raised has written no file and has not returned; files
\* are written only by the run that returns its three tables.
C12_NoOutputOnFatalError ==
    /\ error # NoError => (pc = "failed" /\ saved_files = {})
    /\ pc = "failed" => error # NoError
    /\ saved_files # {} =>
          (pc = "done" /\ full_df # <<>> /\ daily_df # <<>> /\ total_df # <<>>)

\* the export mode was refused after ingestion, emissions and rollup succeeded
C12_Witness ==
    /\ pc = "failed"
    /\ error = [kind |-> "ValueError", raised_in |-> "save_output_dfs"]
    /\ total_df # <<>>
    /\ saved_files = {}

\* every row of sacct_df has a ReqMem and a MaxRSS the normalisers accept
WellFormedRows ==
    \A i \in DOMAIN sacct_df :
        /\ requested_memory(sacct_df[i]).err = ""
        /\ process_max_rss(sacct_df[i]).err = ""

\* every job of sacct_df has a row in an active state
AllJobsActive ==
    \A id \in InputJobIDs : \E i \in StepsOf(id) : sacct_df[i].State \in ActiveStates

\* C13 as stated, for the jobs all running or pending: the run raises
\* nothing and goes no further than the exit of exit_if_no_jobs.
C13_EmptyResultExitsCleanly ==
    (sacct_df # <<>> /\ AllJobsActive /\ WellFormedRows) =>
        /\ error = NoError
        /\ pc \in {"exit_if_no_jobs", "df_processor", "exit_if_no_jobs_left", "exited"}

UsersOf(df) == {df[i].UserName : i \in DOMAIN df}

\* C14: the frame get_job_logs returns has exactly one distinct user; a run
\* whose surviving records have more than one raises ValueError in
\* get_job_logs, returns no frame, estimates no energy and makes no table.
C14_SingleUser ==
    /\ df_jobs # <<>> => Cardinality(UsersOf(df_jobs)) = 1
    /\ (Processed /\ Cardinality(UsersOf(final_df)) > 1) =>
          /\ df_jobs = <<>> /\ api_calls = <<>> /\ total_df = <<>>
          /\ pc \in {"exit_if_no_jobs_left", "single_user", "failed"}
          /\ pc = "failed" =>
                error = [kind |-> "ValueError", raised_in |-> "get_job_logs"]

\* the jobs of two users survived and the run has failed
C14_Witness ==
    /\ Processed
    /\ UsersOf(final_df) = {"alice", "bob"}
    /\ pc = "failed"
    /\ error.raised_in = "get_job_logs"

\* the partition a job is accounted to: the first one of its own row
ResolvedPartition(id) ==
    LET row == sacct_df[CHOOSE i \in StepsOf(id) : \A k \in StepsOf(id) : i <= k]
    IN  IF row.Partition = <<>> THEN "" ELSE row.Partition[1]

\* a job that is not running is on a partition the configuration lacks
UnknownPartition ==
    \E id \in InputJobIDs :
        /\ \A i \in StepsOf(id) : sacct_df[i].State \notin ActiveStates
        /\ ResolvedPartition(id) \notin DOMAIN hpc_config.partitions

\* C15: every record of the output has a PartitionName of the configuration
\* and the processor of that partition as PartitionCategory; when a job that
\* is not running has another partition, or none, df_processor raises.
C15_PartitionConfigured ==
    /\ Processed =>
          \A i \in DOMAIN final_df :
              /\ final_df[i].PartitionName \in DOMAIN hpc_config.partitions
              /\ final_df[i].PartitionCategory =
                    hpc_config.partitions[final_df[i].PartitionName].processor
    /\ (UnknownPartition /\ pc \notin {"exit_if_no_jobs", "df_processor"}) =>
          (pc = "failed" /\ error.raised_in = "df_processor")
    /\ \A i \in DOMAIN df_jobs :
          df_jobs[i].PartitionName \in DOMAIN hpc_config.partitions

\* a job whose partition field lists two partitions was kept under the
\* first of them, and its energy has been estimated
C15_Witness ==
    /\ Processed
    /\ \E i \in DOMAIN sacct_df : Len(sacct_df[i].Partition) = 2
    /\ \E i \in DOMAIN df_jobs :
          /\ df_jobs[i].PartitionName = "gpu"
          /\ df_jobs[i].PartitionCategory = "GPU"
    /\ EnergyEstimated

\* df_processor raised on a finished job whose partition field is missing
C15_UnknownPartitionRaised ==
    /\ UnknownPartition
    /\ \E id \in InputJobIDs : ResolvedPartition(id) = ""
    /\ pc = "failed"
    /\ error = [kind |-> "ValueError", raised_in |-> "df_processor"]

\* C20 as stated: with a Scope3 selector other than 'no_scope3', emissions
\* are computed only for a preset or a positive number, each job's
\* Scope3Emissions_gCO2e is its NodeHours x that factor and is not negative;
\* any other selector raises in scope3_emissions.
C20_Scope3FactorPositive ==
    LET presets == [Isambard3 |-> 43, IsambardAI |-> 114, Archer2 |-> 23]
        selector == arguments.Scope3
        factor == IF selector \in DOMAIN presets THEN R(presets[selector])
                  ELSE CustomScope3[selector]
    IN  selector # "no_scope3" =>
            /\ EmissionsAdded =>
                  /\ selector \in DOMAIN presets \cup DOMAIN CustomScope3
                  /\ factor.n > 0
                  /\ \A i \in DOMAIN df_jobs :
                        /\ df_jobs[i].Scope3Emissions_gCO2e =
                              RMul(df_jobs[i].NodeHours, factor)
                        /\ df_jobs[i].Scope3Emissions_gCO2e.n >= 0
            /\ (/\ selector \notin DOMAIN presets \cup DOMAIN CustomScope3
                /\ carbon_intensity_values # <<>>
                /\ pc \notin {"query_oracle", "add_emissions"}) =>
                  (pc = "failed" /\ error.raised_in = "scope3_emissions")

(***************************************************************************)
(* Properties of the merged and the derived columns of df_processor.       *)
(***************************************************************************)
\* the sacct rows of one job, in the order of sacct's output
StepRows(id) == SelectSeq(sacct_df, LAMBDA r : SplitHead(r.JobID, ".") = id)

\* the greatest and the least of the integers f gives for the rows
MaxOver(rows, f(_)) ==
    CHOOSE m \in {f(rows[k]) : k \in DOMAIN rows} : \A k \in DOMAIN rows : f(rows[k]) <= m

MinOver(rows, f(_)) ==
    CHOOSE m \in {f(rows[k]) : k \in DOMAIN rows} : \A k \in DOMAIN rows : m <= f(rows[k])

\* v is the greatest of the floats f gives for the rows
IsRMaxOver(v, rows, f(_)) ==
    /\ \E k \in DOMAIN rows : f(rows[k]) = v
    /\ \A k \in DOMAIN rows : RLe(f(rows[k]), v)

\* sacct's CPUTime of a row, or the product that replaces a missing column
CPUTimeOf(r) == IF "CPUTime" \in DOMAIN r THEN r.CPUTime ELSE r.Elapsed * r.NCPUS

\* C21: a record of the output has the user, job name, working directory
\* and partition of the first row of its job, the maximum over the job's
\* rows of the CPU, node and GPU counts, the requested and used memory, the
\* elapsed time, the two CPU times and the energy reading, and the earliest
\* submission time; only the rows of the job itself are read.
C21_MergedRecord ==
    Processed =>
        \A i \in DOMAIN final_df :
            LET job == final_df[i]
                rows == StepRows(job.Job_ID)
            IN  /\ rows # <<>>
                /\ job.UserName = rows[1].User
                /\ job.UserID = rows[1].UID
                /\ job.NameofJob = rows[1].JobName
                /\ job.WorkingDirectory = rows[1].WorkDir
                /\ job.PartitionName = process_partition_field(rows[1])
                /\ job.CPUsAllocated = MaxOver(rows, LAMBDA r : r.NCPUS)
                /\ job.TotalNodes = MaxOver(rows, LAMBDA r : r.NNodes)
                /\ HasColumn(sacct_df, "GPUs") =>
                      job.GPUsAllocated = MaxOver(rows, LAMBDA r : r.GPUs)
                /\ job.ElapsedRuntime = MaxOver(rows, LAMBDA r : r.Elapsed)
                /\ job.ActualCPUtime = MaxOver(rows, LAMBDA r : r.TotalCPU)
                /\ job.CPUwalltime = MaxOver(rows, CPUTimeOf)
                /\ job.SubmissionTime = MinOver(rows, LAMBDA r : r.Submit)
                /\ IsRMaxOver(job.RequestedMemoryGB, rows,
                              LAMBDA r : requested_memory(r).v)
                /\ IsRMaxOver(job.UsedMemoryGB, rows, LAMBDA r : process_max_rss(r).v)
                /\ IsRMaxOver(job.EnergyIPMI_kwh, rows,
                              LAMBDA r : Norm(r.ConsumedEnergyRaw, 3600000))

\* a job of three rows whose used memory, CPU time and energy come from its
\* steps, and whose name and partition come from its first row
C21_Witness ==
    /\ Processed
    /\ \E i \in DOMAIN final_df :
          LET job == final_df[i]
              rows == StepRows(job.Job_ID)
          IN  /\ Len(rows) = 3
              /\ job.NameofJob = "sim"
              /\ rows[2].JobName = "batch"
              /\ job.UsedMemoryGB = R(3)
              /\ job.ActualCPUtime = 1700
              /\ job.EnergyIPMI_kwh = R(1)
              /\ job.CPUsAllocated = 4
              /\ rows[2].NCPUS = 2

\* C22: RequiredMemoryGB is the whole GB of the used memory plus 1 when the
\* requested memory is less than the used memory, and the smaller of that
\* and the requested memory otherwise; it is never less than the used memory.
C22_RequiredMemory ==
    Processed =>
        \A i \in DOMAIN final_df :
            LET job == final_df[i]
                used == job.UsedMemoryGB1
                next_GB == R((used.n \div used.d) + 1)
            IN  /\ job.RequiredMemoryGB =
                      IF RLt(job.RequestedMemoryGB, used) THEN next_GB
                      ELSE IF RLt(next_GB, job.RequestedMemoryGB) THEN next_GB
                      ELSE job.RequestedMemoryGB
                /\ RLe(used, job.RequiredMemoryGB)

\* a job that used 1.5 GB of the 4 GB it requested requires 2 GB
C22_Witness ==
    /\ Processed
    /\ \E i \in DOMAIN final_df :
          /\ final_df[i].UsedMemoryGB1 = Norm(3, 2)
          /\ final_df[i].RequestedMemoryGB = R(4)
          /\ final_df[i].RequiredMemoryGB = R(2)

\* ceil(x) of a non-negative float
Ceil(x) == IF x.n % x.d = 0 THEN x.n \div x.d ELSE (x.n \div x.d) + 1

\* C22 as stated: RequiredMemoryGB is built from the used memory rounded up
\* to a whole GB, plus 1.
C22_RoundedUpPlusOne ==
    Processed =>
        \A i \in DOMAIN final_df :
            LET job == final_df[i]
                used == job.UsedMemoryGB1
                rounded_up_plus_one == R(Ceil(used) + 1)
            IN  job.RequiredMemoryGB =
                   IF RLt(job.RequestedMemoryGB, used) THEN rounded_up_plus_one
                   ELSE RMin2(job.RequestedMemoryGB, rounded_up_plus_one)

\* C23: on a CPU partition CPUhours is the CPUwalltime in hours and GPUhours
\* is 0; on a GPU partition GPUhours is the elapsed time x the GPU count in
\* hours and CPUhours is 0.
C23_CoreHoursCharged ==
    Processed =>
        \A i \in DOMAIN final_df :
            LET job == final_df[i]
            IN  IF job.PartitionCategory = "CPU"
                THEN /\ job.CPUhours = Norm(job.CPUwalltime, 3600)
                     /\ job.GPUhours = R(0)
                ELSE /\ job.PartitionCategory = "GPU"
                     /\ job.GPUhours =
                           Norm(job.ElapsedRuntime * job.GPUsAllocated, 3600)
                     /\ job.CPUhours = R(0)

\* a CPU job that used half of the CPU time it was charged, next to a GPU job
C23_Witness ==
    /\ Processed
    /\ \E i \in DOMAIN final_df :
          /\ final_df[i].PartitionCategory = "CPU"
          /\ final_df[i].CPUusagetime = 1800
          /\ final_df[i].CPUhours = R(2)
    /\ \E i \in DOMAIN final_df :
          /\ final_df[i].PartitionCategory = "GPU"
          /\ final_df[i].GPUhours = R(1)

\* C23 as stated: on a CPU partition CPUhours is the CPUusagetime in hours.
C23_CoreHoursUsed ==
    Processed =>
        \A i \in DOMAIN final_df :
            final_df[i].PartitionCategory = "CPU" =>
                /\ final_df[i].CPUhours = Norm(final_df[i].CPUusagetime, 3600)
                /\ final_df[i].GPUhours = R(0)

\* C24: CPUusagetime is the merged ActualCPUtime when that is not zero, and
\* the merged elapsed time x the merged CPU count otherwise, with and
\* without a CPUTime column in sacct's output.
C24_CPUUsageTime ==
    Processed =>
        \A i \in DOMAIN final_df :
            LET job == final_df[i]
            IN  job.CPUusagetime =
                   IF job.ActualCPUtime # 0 THEN job.ActualCPUtime
                   ELSE job.ElapsedRuntime * job.CPUsAllocated

\* sacct printed no CPUTime; a job with a step has no measured CPU time and
\* is given its elapsed time on its four CPUs
C24_Witness ==
    /\ Processed
    /\ ~HasColumn(sacct_df, "CPUTime")
    /\ \E i \in DOMAIN final_df :
          /\ Len(StepRows(final_df[i].Job_ID)) = 2
          /\ final_df[i].ActualCPUtime = 0
          /\ final_df[i].CPUusagetime = 14400

\* the rows of a view's group g in the per-job table
GroupOf(view, g) ==
    IF "SubmissionDate" \in DOMAIN view[g]
    THEN SelectSeq(full_df, LAMBDA r : r.SubmissionDate = view[g].SubmissionDate)
    ELSE full_df

\* C25 as stated: the used memory of every record of the per-job table is
\* the measured one when a row of the job reported it and the requested
\* memory otherwise, never the -1 of a missing MaxRSS, and the used memory
\* of a daily or whole-run row is the sum of these.
C25_NoSentinelInOutput ==
    Aggregated =>
        /\ \A i \in DOMAIN full_df :
              /\ full_df[i].UsedMemoryGB = full_df[i].UsedMemoryGB1
              /\ RLe(R(0), full_df[i].UsedMemoryGB)
        /\ \A view \in {daily_df, total_df} :
              \A g \in DOMAIN view :
                  /\ view[g].UsedMemoryGB = RSum(Col(GroupOf(view, g), "UsedMemoryGB1"))
                  /\ RLe(R(0), view[g].UsedMemoryGB)

(***************************************************************************)
(* Properties of add_emissions_data and aggregate_df.                      *)
(***************************************************************************)
\* every field of every row of df has the same value in the same row of later
Kept(df, later) ==
    /\ Len(later) = Len(df)
    /\ \A i \in DOMAIN df :
          \A f \in DOMAIN df[i] : f \in DOMAIN later[i] /\ later[i][f] = df[i][f]

\* C26: from the frame get_job_logs returns on, every step of the run keeps
\* the rows of df_jobs, their order and the value of every field they have;
\* the frame starts as final_df, and the per-job table is df_jobs as it is
\* when aggregate_df returns.
C26_FieldAdditionsOnly ==
    [][/\ df_jobs # <<>> => Kept(df_jobs, df_jobs')
       /\ (df_jobs = <<>> /\ df_jobs' # <<>>) => df_jobs' = final_df
       /\ full_df' # full_df => (full_df' = df_jobs' /\ Kept(final_df, full_df'))
       /\ final_df # <<>> => final_df' = final_df]_vars

\* the per-job table of a finished run has the columns of the three stages
\* next to those of df_processor, for two jobs in the order of final_df
C26_Witness ==
    /\ pc = "done"
    /\ Len(full_df) = 2
    /\ \A i \in DOMAIN full_df :
          /\ {"energy_estimated_kwh", "failed_energy_kwh", "TotalEmissions_gCO2e",
              "SubmissionDate"} \subseteq DOMAIN full_df[i]
          /\ full_df[i].Job_ID = final_df[i].Job_ID
          /\ full_df[i].RequestedMemoryGB = final_df[i].RequestedMemoryGB
    /\ \E i \in DOMAIN full_df :
          final_df[i].RequestedMemoryGB # final_df[i].RequiredMemoryGB

\* kWh of a power in W drawn for a time in seconds
KWh(seconds, watts) == RDiv(RMul(Norm(seconds, 3600), watts), R(1000))

\* C27: energy_estimated_noPUE_kwh is the CPU, GPU and requested-memory
\* energy added up and energy_estimated_kwh is the PUE times it; the CPU
\* energy uses the partition's TDP on a CPU partition and its CPU_TDP on a
\* GPU partition; the GPU energy is 0 on a CPU partition and uses the TDP on
\* a GPU partition; energy_requiredMem_estimated_kwh has the required memory
\* in place of the requested one.
C27_EnergyEstimate ==
    EnergyEstimated =>
        \A i \in DOMAIN df_jobs :
            LET job == df_jobs[i]
                partition == hpc_config.partitions[job.PartitionName]
                on_CPU == job.PartitionCategory = "CPU"
                cpu == KWh(job.CPUusagetime,
                           R(IF on_CPU THEN partition.TDP ELSE partition.CPU_TDP))
                gpu == IF on_CPU THEN R(0) ELSE KWh(job.GPUusagetime, R(partition.TDP))
                memory == KWh(job.ElapsedRuntime,
                              RMul(job.RequestedMemoryGB, Norm(3725, 10000)))
                required == KWh(job.ElapsedRuntime,
                                RMul(job.RequiredMemoryGB, Norm(3725, 10000)))
            IN  /\ job.CPU_energy_estimated_kwh = cpu
                /\ job.GPU_energy_estimated_kwh = gpu
                /\ job.energy_estimated_noPUE_kwh = RAdd(RAdd(cpu, gpu), memory)
                /\ job.energy_estimated_kwh =
                      RMul(R(hpc_config.PUE), job.energy_estimated_noPUE_kwh)
                /\ job.energy_requiredMem_estimated_kwh =
                      RMul(R(hpc_config.PUE), RAdd(RAdd(cpu, gpu), required))

\* a GPU job with CPU and GPU energy that requires less memory than it
\* requested, next to a CPU job
C27_Witness ==
    /\ EnergyEstimated
    /\ \E i \in DOMAIN df_jobs :
          /\ df_jobs[i].PartitionCategory = "GPU"
          /\ df_jobs[i].CPU_energy_estimated_kwh.n > 0
          /\ df_jobs[i].GPU_energy_estimated_kwh.n > 0
          /\ RLt(df_jobs[i].RequiredMemoryGB, df_jobs[i].RequestedMemoryGB)
          /\ df_jobs[i].energy_requiredMem_estimated_kwh
                # df_jobs[i].energy_estimated_kwh
    /\ \E i \in DOMAIN df_jobs :
          /\ df_jobs[i].PartitionCategory = "CPU"
          /\ df_jobs[i].GPU_energy_estimated_kwh = R(0)
          /\ df_jobs[i].energy_estimated_kwh.n > 0

\* C28: Scope2Emissions_IPMI_gCO2e has the PUE for every job of a run in
\* which some job has a positive measured energy, also when other jobs have
\* none, and is without it only when no job of the run has one.
C28_PUEWhenAnyMeasured ==
    EmissionsAdded =>
        \A i \in DOMAIN df_jobs :
            df_jobs[i].Scope2Emissions_IPMI_gCO2e =
                RMul(RMul(df_jobs[i].EnergyIPMI_kwh,
                          IF AnyMeasured THEN R(hpc_config.PUE) ELSE R(1)),
                     df_jobs[i].CarbonIntensity_gCO2e_kwh)

\* a run of a job with 1 kWh measured and a job with nothing measured: the
\* first has 1 kWh x PUE 2 x 124 gCO2e/kWh
C28_Witness ==
    /\ EmissionsAdded
    /\ \E i, k \in DOMAIN df_jobs :
          /\ df_jobs[i].EnergyIPMI_kwh = R(1)
          /\ df_jobs[i].Scope2Emissions_IPMI_gCO2e = R(248)
          /\ df_jobs[k].EnergyIPMI_kwh = R(0)
          /\ df_jobs[k].Scope2Emissions_IPMI_gCO2e = R(0)

\* C28 as stated: the PUE is applied only when every job of the run has a
\* positive measured energy, and for no job otherwise.
C28_PUEWhenAllMeasured ==
    EmissionsAdded =>
        \A i \in DOMAIN df_jobs :
            df_jobs[i].Scope2Emissions_IPMI_gCO2e =
                RMul(RMul(df_jobs[i].EnergyIPMI_kwh,
                          IF AllMeasured THEN R(hpc_config.PUE) ELSE R(1)),
                     df_jobs[i].CarbonIntensity_gCO2e_kwh)

\* the job of a record ended in a successful state, in every one of its rows
Succeeded(job) ==
    \A k \in StepsOf(job.Job_ID) : sacct_df[k].State \in {"CD", "COMPLETED"}

\* C29: every record that reaches aggregate_df has StateCode 0 or 1; in
\* every row of the daily and the whole-run view successful_jobs is the
\* number of the group's jobs that succeeded, SuccessFraction is between 0
\* and 1, and SuccessFraction + FailedFraction = 1.
C29_SuccessFractions ==
    /\ \A i \in DOMAIN df_jobs : df_jobs[i].StateCode \in {0, 1}
    /\ Aggregated =>
          \A view \in {daily_df, total_df} :
              \A g \in DOMAIN view :
                  LET jobs == GroupOf(view, g)
                  IN  /\ view[g].successful_jobs =
                            Cardinality({i \in DOMAIN jobs : Succeeded(jobs[i])})
                      /\ view[g].JobCount = Len(jobs)
                      /\ RLe(R(0), view[g].SuccessFraction)
                      /\ RLe(view[g].SuccessFraction, R(1))
                      /\ RAdd(view[g].SuccessFraction, view[g].FailedFraction) = R(1)

\* a run of two days: two jobs succeeded on one, a job failed on the other
C29_Witness ==
    /\ Aggregated
    /\ Len(daily_df) = 2
    /\ daily_df[1].SuccessFraction = R(1)
    /\ daily_df[2].FailedFraction = R(1)
    /\ total_df[1].JobCount = 3
    /\ total_df[1].successful_jobs = 2
    /\ total_df[1].SuccessFraction = Norm(2, 3)
    /\ total_df[1].FailedFraction = Norm(1, 3)

(***************************************************************************)
(* Properties of get_job_logs under a job filter.                          *)
(***************************************************************************)
\* get_job_logs as a function of sacct's output: it raises, exits, or
\* returns final_df
get_job_logs(df, args, py_division, strict_setitem) ==
    LET processed == df_processor(df, args, py_division, strict_setitem)
    IN  IF df = <<>> THEN [ended |-> "exit", df |-> <<>>]
        ELSE IF processed.err # "" THEN [ended |-> "raise", df |-> <<>>]
        ELSE IF processed.final_df = <<>> THEN [ended |-> "exit", df |-> <<>>]
        ELSE IF ~single_user(processed.final_df) THEN [ended |-> "raise", df |-> <<>>]
        ELSE [ended |-> "return", df |-> processed.final_df]

\* the rows of the jobs a job filter selects
SelectedRows(df, args) ==
    SelectSeq(df, LAMBDA r :
                      SplitHead(SplitHead(r.JobID, "."), "_") \in args.JobIDs.ids)

\* get_job_logs has ended in this run, and how
GetJobLogsEnded ==
    \/ pc \in {"exited", "estimate_energy", "get_carbon_intensity", "query_oracle",
               "add_emissions", "aggregate_df", "save_output_dfs", "done"}
    \/ pc = "failed"

EndOfGetJobLogs ==
    IF pc = "exited" THEN [ended |-> "exit", df |-> <<>>]
    ELSE IF pc = "failed" /\ error.raised_in \in {"df_processor", "get_job_logs"}
    THEN [ended |-> "raise", df |-> <<>>]
    ELSE [ended |-> "return", df |-> final_df]

\* C30 as stated, for an output in which some job has ended: under a job
\* filter get_job_logs ends as it does on the rows of the selected jobs
\* alone (it raises on both inputs, or returns the same frame on both).
C30_FilterIsolation ==
    (~arguments.JobIDs.all /\ ~AllJobsActive /\ GetJobLogsEnded) =>
        \E py_division, strict_setitem \in BOOLEAN :
            get_job_logs(SelectedRows(sacct_df, arguments), arguments,
                         py_division, strict_setitem) = EndOfGetJobLogs

=============================================================================
